---- MODULE Spec2Model ----
(***************************************************************************)
(* A model of the two engines of mothertongues: the collation sorter       *)
(* (processors/sorter.py, driven by MTDictionary.initialize) and the       *)
(* inverted index with its BM25 scores (processors/index_builder.py).      *)
(*                                                                         *)
(* A Python str is a sequence of code points (integers): "a" = <<97>>,     *)
(* "aa" = <<97, 97>>, U+016B = <<363>>, U+012F = <<303>>, " " = <<32>>.    *)
(* A Python dict is a function; a dict keyed by field names has STRING     *)
(* keys.  Three specifications share the module: Spec (one ArbSorter       *)
(* instance), DictSpec (MTDictionary.initialize) and IndexSpec (one        *)
(* InvertedIndex instance).                                                *)
(***************************************************************************)
EXTENDS Integers, Sequences, FiniteSets, TLC

VARIABLES
    \* ---- ArbSorter instance (sorter.py 28-44)
    order,                \* self.order
    ignorable,            \* self.ignorable
    splitter,             \* self.splitter: the alternation of the regex, in order
    char_to_ord_lookup,   \* self.char_to_ord_lookup
    ord_to_char_lookup,   \* self.ord_to_char_lookup
    oovs,                 \* self.oovs
    keys,                 \* history: word -> key returned by word_as_values on this instance
    call,                 \* the last call on the sorter and what it returned
    \* ---- MTDictionary (dictionary.py 34-57)
    sorting_field,        \* self.config.config.sorting_field
    data,                 \* self.data
    duplicates,           \* self.duplicates
    missing_data,         \* self.missing_data
    missing_chars,        \* self.missing_chars
    raised,               \* what the last initialize() raised, if anything
    \* ---- InvertedIndex instance (index_builder.py 30-54)
    raw_data,                \* self.raw_data
    keys_to_index,           \* self.keys_to_index
    normalization_function,  \* self.normalization_function
    stemmer_function,        \* self.stemmer_function
    index_data,              \* self.data: term -> entryID -> posting
    term_order,              \* the key order of self.data (a dict keeps insertion order)
    built,                   \* build() has created doc_frequency_counter and document_lengths
    doc_frequency_counter,   \* self.doc_frequency_counter
    document_lengths,        \* self.document_lengths
    IDFS,                    \* self.IDFS
    index_call,              \* the calls made on the index: the last one, what it raised, how many
    \* ---- MTDictionary.build_indices (dictionary.py 363-378)
    config,                  \* self.config.config: the stemmers and keys to index, once validated
    l1_index,                \* self.l1_index, an InvertedIndex or None
    l2_index,                \* self.l2_index, an InvertedIndex or None
    index_dicts,             \* the dicts the indices hold as self.data, by the name of the object
    export_result            \* what export() returned or raised, unset before it is called

sorterVars == <<order, ignorable, splitter, char_to_ord_lookup, ord_to_char_lookup, oovs, keys, call>>

dictVars == <<sorting_field, data, duplicates, missing_data, missing_chars, raised>>

indexVars == <<raw_data, keys_to_index, normalization_function, stemmer_function, index_data,
               term_order, built, doc_frequency_counter, document_lengths, IDFS, index_call>>

pipelineVars == <<config, l1_index, l2_index, index_dicts, export_result>>

vars == <<sorterVars, dictVars, indexVars, pipelineVars>>

(***************************************************************************)
(* Bounds of the model.                                                    *)
(***************************************************************************)
\* encode/sort calls are taken while fewer than MaxOovs characters are logged in self.oovs
MaxOovs == 3

\* the longest entry list handed to one sort
MaxEntries == 3

(***************************************************************************)
(* dict helpers                                                            *)
(***************************************************************************)
\* d[k] = v on a Python dict
Put(d, k, v) == [x \in (DOMAIN d) \cup {k} |-> IF x = k THEN v ELSE d[x]]

\* the empty dict
EmptyDict == [x \in {} |-> 0]

\* "".join(parts)
RECURSIVE Join(_)
Join(parts) == IF parts = <<>> THEN <<>> ELSE Head(parts) \o Join(Tail(parts))

(***************************************************************************)
(* ArbSorter.__init__                                                      *)
(***************************************************************************)
\* self.oov_start
oov_start == 10000

RECURSIVE ByLenFrom(_, _)
ByLenFrom(graphemes, n) ==
    IF n < 0 THEN <<>>
    ELSE SelectSeq(graphemes, LAMBDA g : Len(g) = n) \o ByLenFrom(graphemes, n - 1)

MaxLenOf(graphemes) ==
    IF graphemes = <<>> THEN 0
    ELSE CHOOSE n \in {Len(graphemes[i]) : i \in 1..Len(graphemes)} :
            \A i \in 1..Len(graphemes) : Len(graphemes[i]) <= n

\* a plausible slip: the alternation lists the graphemes in alphabet order
split_order_unsorted(ord) == ord

\* sorted(self.order, key=len, reverse=True): longest first, ties in alphabet order
split_order(ord) == ByLenFrom(ord, MaxLenOf(ord))

\* {self.order[i]: i for i in range(len(self.order))}; ranks count from 0
InitCharToOrd(ord) ==
    [g \in {ord[i] : i \in 1..Len(ord)} |->
        (CHOOSE i \in 1..Len(ord) : ord[i] = g /\ \A j \in (i + 1)..Len(ord) : ord[j] # g) - 1]

\* {v: k for k, v in self.char_to_ord_lookup.items()}
InitOrdToChar(c2o) ==
    [v \in {c2o[g] : g \in DOMAIN c2o} |-> CHOOSE g \in DOMAIN c2o : c2o[g] = v]

(***************************************************************************)
(* self.splitter.split(word), empty pieces dropped (sorter.py 52).         *)
(* re tries the alternatives in the order they are written and takes the   *)
(* first that matches at the leftmost position; what lies between two      *)
(* matches is returned as one piece.                                       *)
(***************************************************************************)
StartsWithAt(word, i, g) ==
    /\ i + Len(g) - 1 <= Len(word)
    /\ SubSeq(word, i, i + Len(g) - 1) = g

FirstMatch(alts, word, i) ==
    IF \E k \in 1..Len(alts) : StartsWithAt(word, i, alts[k])
    THEN CHOOSE k \in 1..Len(alts) :
            /\ StartsWithAt(word, i, alts[k])
            /\ \A j \in 1..(k - 1) : ~StartsWithAt(word, i, alts[j])
    ELSE 0

Piece(pending) == IF pending = <<>> THEN <<>> ELSE <<pending>>

RECURSIVE SplitFrom(_, _, _, _)
SplitFrom(alts, word, i, pending) ==
    IF i > Len(word) THEN Piece(pending)
    ELSE LET k == FirstMatch(alts, word, i) IN
         IF k = 0 THEN SplitFrom(alts, word, i + 1, Append(pending, word[i]))
         ELSE Piece(pending) \o <<alts[k]>> \o SplitFrom(alts, word, i + Len(alts[k]), <<>>)

splitter_split(alts, word) == SplitFrom(alts, word, 1, <<>>)

(***************************************************************************)
(* ArbSorter.word_as_values.  st is the instance's mutable part:           *)
(* [c2o, o2c, oovs]; the result adds the returned values.                  *)
(***************************************************************************)
\* a plausible slip: OOV codes handed out in order of first appearance
oov_index_by_arrival(st, oov) == oov_start + Len(st.oovs)

\* oov_index = self.oov_start + ord(oov)
oov_index(st, oov) == oov_start + oov

\* a plausible slip: the OOV code is not entered in the reverse lookup
register_oov_one_way(acc, oov, idx) ==
    [values |-> Append(acc.values, idx),
     c2o    |-> Put(acc.c2o, <<oov>>, idx),
     o2c    |-> acc.o2c,
     oovs   |-> Append(acc.oovs, oov)]

\* a plausible slip: the code is learnt and emitted but the character is not logged
register_oov_unlogged(acc, oov, idx) ==
    [values |-> Append(acc.values, idx),
     c2o    |-> Put(acc.c2o, <<oov>>, idx),
     o2c    |-> Put(acc.o2c, idx, <<oov>>),
     oovs   |-> acc.oovs]

\* sorter.py 65-68: both lookups learn the code, the character is logged, the code is emitted
register_oov(acc, oov, idx) ==
    [values |-> Append(acc.values, idx),
     c2o    |-> Put(acc.c2o, <<oov>>, idx),
     o2c    |-> Put(acc.o2c, idx, <<oov>>),
     oovs   |-> Append(acc.oovs, oov)]

RECURSIVE OovLoop(_, _, _, _)
OovLoop(ign, char, j, acc) ==
    IF j > Len(char) THEN acc
    ELSE LET oov == char[j] IN
         IF <<oov>> \in ign THEN OovLoop(ign, char, j + 1, acc)
         ELSE OovLoop(ign, char, j + 1, register_oov(acc, oov, oov_index(acc, oov)))

RECURSIVE CharLoop(_, _, _, _)
CharLoop(ign, word, i, acc) ==
    IF i > Len(word) THEN acc
    ELSE LET char == word[i] IN
         IF char \in ign THEN CharLoop(ign, word, i + 1, acc)
         ELSE IF char \in DOMAIN acc.c2o
              THEN CharLoop(ign, word, i + 1,
                            [acc EXCEPT !.values = Append(@, acc.c2o[char])])
              ELSE CharLoop(ign, word, i + 1, OovLoop(ign, char, 1, acc))

\* a plausible slip: the ignorable list is never consulted
word_as_values_keeping_ignorables(alts, ign, st, word) ==
    CharLoop({}, splitter_split(alts, word), 1,
             [values |-> <<>>, c2o |-> st.c2o, o2c |-> st.o2c, oovs |-> st.oovs])

word_as_values(alts, ign, st, word) ==
    CharLoop(ign, splitter_split(alts, word), 1,
             [values |-> <<>>, c2o |-> st.c2o, o2c |-> st.o2c, oovs |-> st.oovs])

(***************************************************************************)
(* ArbSorter.values_as_word: a missing code is a KeyError.                 *)
(***************************************************************************)
values_as_word(o2c, values) ==
    IF \A i \in 1..Len(values) : values[i] \in DOMAIN o2c
    THEN [raised |-> "none", word |-> Join([i \in 1..Len(values) |-> o2c[values[i]]])]
    ELSE [raised |-> "KeyError", word |-> <<>>]

(***************************************************************************)
(* ArbSorter.return_sorted_data / __call__.  The items are dicts that the  *)
(* loop annotates in place; a KeyError leaves the items annotated so far.  *)
(***************************************************************************)
\* Python's comparison of two lists of ints: the first difference decides,
\* and a proper prefix is smaller
ListLess(k1, k2) ==
    \/ \E i \in 1..Len(k1) :
          /\ i <= Len(k2)
          /\ k1[i] < k2[i]
          /\ \A j \in 1..(i - 1) : k1[j] = k2[j]
    \/ /\ Len(k1) < Len(k2)
       /\ \A j \in 1..Len(k1) : k1[j] = k2[j]

\* a plausible slip: an unstable sort, equal keys come out in reverse
InsertBeforeEqual(sorted_list, item, sort_key) ==
    LET p == Cardinality({i \in 1..Len(sorted_list) :
                            ListLess(sorted_list[i][sort_key], item[sort_key])})
    IN SubSeq(sorted_list, 1, p) \o <<item>> \o SubSeq(sorted_list, p + 1, Len(sorted_list))

\* one step of the stable sort: the item goes behind every item whose key is
\* not greater than its own
InsertStable(sorted_list, item, sort_key) ==
    LET p == Cardinality({i \in 1..Len(sorted_list) :
                            ~ListLess(item[sort_key], sorted_list[i][sort_key])})
    IN SubSeq(sorted_list, 1, p) \o <<item>> \o SubSeq(sorted_list, p + 1, Len(sorted_list))

RECURSIVE SortedFrom(_, _, _, _)
SortedFrom(items, sort_key, i, acc) ==
    IF i > Len(items) THEN acc
    ELSE SortedFrom(items, sort_key, i + 1, InsertStable(acc, items[i], sort_key))

\* a plausible slip: the annotated list is returned as it came
unsorted_by_key(items, sort_key) == items

\* sorted(sorted_list, key=lambda x: x[sort_key]): Python's sort is stable
sorted_by_key(items, sort_key) == SortedFrom(items, sort_key, 1, <<>>)

RECURSIVE ItemLoop(_, _, _, _, _, _)
ItemLoop(alts, ign, target, sort_key, i, acc) ==
    IF i > Len(acc.items) THEN acc
    ELSE LET item == acc.items[i] IN
         IF target \notin DOMAIN item THEN [acc EXCEPT !.raised = "KeyError"]
         ELSE LET r == word_as_values(alts, ign, acc, item[target]) IN
              ItemLoop(alts, ign, target, sort_key, i + 1,
                       [raised |-> "none",
                        items  |-> [acc.items EXCEPT ![i] = Put(item, sort_key, r.values)],
                        c2o    |-> r.c2o,
                        o2c    |-> r.o2c,
                        oovs   |-> r.oovs])

return_sorted_data(alts, ign, st, item_list, target, sort_key) ==
    LET r == ItemLoop(alts, ign, target, sort_key, 1,
                      [raised |-> "none", items |-> item_list,
                       c2o |-> st.c2o, o2c |-> st.o2c, oovs |-> st.oovs])
    IN [raised |-> r.raised,
        items  |-> r.items,
        result |-> IF r.raised = "none" THEN sorted_by_key(r.items, sort_key) ELSE <<>>,
        c2o    |-> r.c2o,
        o2c    |-> r.o2c,
        oovs   |-> r.oovs]

(***************************************************************************)
(* The sorters and the words of the model.                                 *)
(***************************************************************************)
\* ["a", "b", "aa", "c"] (test_digraph_sorting) and ["c", "ab", "a"]
Alphabets == { << <<97>>, <<98>>, <<97, 97>>, <<99>> >>,
               << <<99>>, <<97, 98>>, <<97>> >> }

\* (alphabet, ignorable) pairs: no ignorable; U+016B as in test_sort_ignorables,
\* with either alphabet; a letter of the alphabet; a two code point ignorable
SorterConfigs ==
    { [order |-> << <<97>>, <<98>>, <<97, 97>>, <<99>> >>, ignorable |-> {}],
      [order |-> << <<97>>, <<98>>, <<97, 97>>, <<99>> >>, ignorable |-> {<<363>>}],
      [order |-> << <<99>>, <<97, 98>>, <<97>> >>,         ignorable |-> {<<363>>}],
      [order |-> << <<97>>, <<98>>, <<97, 97>>, <<99>> >>, ignorable |-> {<<99>>}],
      [order |-> << <<97>>, <<98>>, <<97, 97>>, <<99>> >>, ignorable |-> {<<363, 303>>}] }

\* "aaba", "aba", "a", "aa", "ca", U+016B "a", "a" U+016B, "a" U+016B "a", U+016B U+012F
Words == { <<97, 97, 98, 97>>, <<97, 98, 97>>, <<97>>, <<97, 97>>, <<99, 97>>,
           <<363, 97>>, <<97, 363>>, <<97, 363, 97>>, <<363, 303>> }

\* the words of the entries handed to sort: "aaba", "aba", "a", U+016B "a"
SortWords == { <<97, 97, 98, 97>>, <<97, 98, 97>>, <<97>>, <<363, 97>> }

\* entry lists of the shape the sorter tests build, [{"entryID": i, "word": w}]
ItemLists ==
    UNION { [1..n -> SortWords] : n \in 0..MaxEntries }

AsItems(ws) == [i \in 1..Len(ws) |-> [entryID |-> i, word |-> ws[i]]]

\* keys handed to values_as_word that word_as_values need not have produced
ProbeKeys == { <<10363, 0>>, <<2, 1, 0>> }

(***************************************************************************)
(* Spec: one ArbSorter instance and the calls made on it.                  *)
(***************************************************************************)
SorterState == [c2o |-> char_to_ord_lookup, o2c |-> ord_to_char_lookup, oovs |-> oovs]

NewSorter(cfg) ==
    /\ order = cfg.order
    /\ ignorable = cfg.ignorable
    /\ splitter = split_order(cfg.order)
    /\ oovs = <<>>
    /\ char_to_ord_lookup = InitCharToOrd(cfg.order)
    /\ ord_to_char_lookup = InitOrdToChar(InitCharToOrd(cfg.order))

NoDictionary ==
    /\ sorting_field = "sort_form"
    /\ data = <<>>
    /\ duplicates = <<>>
    /\ missing_data = {}
    /\ missing_chars = {}
    /\ raised = [type |-> "none"]

\* self.l1_index = None, self.l2_index = None
NoIndexObject ==
    [phase |-> "None", raw_data |-> <<>>, keys_to_index |-> <<>>,
     normalization_function |-> "None", stemmer_function |-> "None",
     data |-> "None", built |-> FALSE, doc_frequency_counter |-> EmptyDict,
     document_lengths |-> EmptyDict, IDFS |-> EmptyDict]

\* no configuration loaded, no index made
NoPipeline ==
    /\ config = [raised |-> "unset"]
    /\ l1_index = NoIndexObject
    /\ l2_index = NoIndexObject
    /\ index_dicts = EmptyDict
    /\ export_result = [raised |-> "unset"]

NoIndex ==
    /\ raw_data = <<>>
    /\ keys_to_index = <<>>
    /\ normalization_function = "None"
    /\ stemmer_function = "None"
    /\ index_data = EmptyDict
    /\ term_order = <<>>
    /\ built = FALSE
    /\ doc_frequency_counter = EmptyDict
    /\ document_lengths = EmptyDict
    /\ IDFS = EmptyDict
    /\ index_call = [op |-> "init", raised |-> "none", builds |-> 0, scorings |-> 0]

Init ==
    /\ \E cfg \in SorterConfigs : NewSorter(cfg)
    /\ keys = EmptyDict
    /\ call = [op |-> "init"]
    /\ NoDictionary
    /\ NoIndex
    /\ NoPipeline

\* sorter.word_as_values(word)
Encode ==
    \E word \in Words :
        \E r \in {word_as_values(splitter, ignorable, SorterState, word)} :
            /\ Len(oovs) < MaxOovs
            /\ char_to_ord_lookup' = r.c2o
            /\ ord_to_char_lookup' = r.o2c
            /\ oovs' = r.oovs
            /\ keys' = Put(keys, word, r.values)
            /\ call' = [op |-> "word_as_values", word |-> word,
                        split |-> splitter_split(splitter, word), values |-> r.values]
            /\ UNCHANGED <<order, ignorable, splitter, dictVars, indexVars, pipelineVars>>

\* sorter.values_as_word(values)
Decode ==
    \E values \in {keys[w] : w \in DOMAIN keys} \cup ProbeKeys :
        \E r \in {values_as_word(ord_to_char_lookup, values)} :
            /\ call' = [op |-> "values_as_word", values |-> values,
                        raised |-> r.raised, word |-> r.word]
            /\ UNCHANGED <<order, ignorable, splitter, char_to_ord_lookup,
                           ord_to_char_lookup, oovs, keys, dictVars, indexVars, pipelineVars>>

Next == Encode \/ Decode

Spec == Init /\ [][Next]_vars

(***************************************************************************)
(* SortSpec: one ArbSorter instance called on entry lists.                 *)
(***************************************************************************)
\* sorter(item_list, "word")
Sort ==
    \E ws \in ItemLists :
        \E r \in {return_sorted_data(splitter, ignorable, SorterState,
                                     AsItems(ws), "word", "sorting_form")} :
            /\ Len(oovs) < MaxOovs
            /\ char_to_ord_lookup' = r.c2o
            /\ ord_to_char_lookup' = r.o2c
            /\ oovs' = r.oovs
            /\ call' = [op |-> "sort", item_list |-> AsItems(ws), target |-> "word",
                        raised |-> r.raised, result |-> r.result]
            /\ UNCHANGED <<order, ignorable, splitter, keys, dictVars, indexVars, pipelineVars>>

SortNext == Sort

SortSpec == Init /\ [][SortNext]_vars

(***************************************************************************)
(* MTDictionary.initialize (dictionary.py 69-142) over one data source    *)
(* whose manifest is the default one (file_type none, name "YourData", no  *)
(* transducers, no media paths), followed by check_data.  An entry is a    *)
(* dict; of the DictionaryEntry fields the model keeps word, definition,   *)
(* entryID and source, and of the extra fields sort_form.  self.data = []  *)
(* also stands for self.data = None: initialize treats them alike.         *)
(* missing_data is kept as the set of its elements.                        *)
(***************************************************************************)
\* ResourceManifest.name
manifest_name == "YourData"

\* LanguageConfiguration.required_fields
required_fields == <<"word", "definition">>

\* LanguageConfiguration.duplicate_fields_subset
duplicate_fields_subset == <<"word", "entryID">>

\* DictionaryEntry(**entry) raises ValidationError unless word and definition are given
Validates(entry) == {"word", "definition"} \subseteq DOMAIN entry

\* dictionary.py 109-120: the source and a missing entryID are filled in, then model_dump()
Dumped(entry, i, j) ==
    LET id == IF "entryID" \in DOMAIN entry THEN entry.entryID
              ELSE manifest_name \o ToString(i) \o ToString(j)
    IN Put(Put(entry, "entryID", id), "source", manifest_name)

\* dictionary.py 90-120; j counts from 0
RECURSIVE ParseLoop(_, _, _, _)
ParseLoop(resource, i, j, acc) ==
    IF j >= Len(resource) THEN acc
    ELSE LET entry == resource[j + 1] IN
         IF ~Validates(entry)
         THEN ParseLoop(resource, i, j + 1,
                        [acc EXCEPT !.missing_data =
                            @ \cup {IF "entryID" \in DOMAIN entry THEN entry.entryID
                                    ELSE "NoIDFound"}])
         ELSE ParseLoop(resource, i, j + 1,
                        [acc EXCEPT !.initialized_data = Append(@, Dumped(entry, i, j))])

\* bool(value) of a str
Truthy(value) == Len(value) > 0

\* collections.Counter: counter[value], 0 when the value was never counted
Count(counter, value) == IF value \in DOMAIN counter THEN counter[value] ELSE 0

\* dictionary.py 247-254: the counters are updated key by key up to the first duplicate
RECURSIVE DuplicateLoop(_, _, _, _)
DuplicateLoop(fields, k, entry, acc) ==
    IF k > Len(fields) THEN acc
    ELSE LET key == fields[k]
             n == Count(acc.counters[key], entry[key]) + 1
             counted == [acc EXCEPT !.counters[key] = Put(@, entry[key], n)]
         IN IF n > 1
            THEN [counted EXCEPT !.duplicates = Append(@, entry.entryID), !.duplicate = TRUE]
            ELSE DuplicateLoop(fields, k + 1, entry, counted)

\* dictionary.py 240-261
RECURSIVE CheckLoop(_, _, _)
CheckLoop(entries, i, acc) ==
    IF i > Len(entries) THEN acc
    ELSE LET entry == entries[i]
             truthy_fields == [k \in 1..Len(required_fields) |-> Truthy(entry[required_fields[k]])]
             d == DuplicateLoop(duplicate_fields_subset, 1, entry, [acc EXCEPT !.duplicate = FALSE])
             missing_fields == \E k \in 1..Len(truthy_fields) : ~truthy_fields[k]
         IN CheckLoop(entries, i + 1,
                [counters     |-> d.counters,
                 duplicates   |-> d.duplicates,
                 duplicate    |-> FALSE,
                 missing_data |-> IF missing_fields THEN d.missing_data \cup {entry.entryID}
                                  ELSE d.missing_data,
                 to_delete    |-> IF d.duplicate \/ missing_fields THEN d.to_delete \cup {i}
                                  ELSE d.to_delete])

\* a plausible slip: duplicates and entries with missing fields are recorded but
\* not deleted
check_data_deleting_nothing(entries, dups, missing, sorter_oovs) ==
    LET r == CheckLoop(entries, 1,
                 [counters     |-> [key \in {duplicate_fields_subset[k] :
                                        k \in 1..Len(duplicate_fields_subset)} |-> EmptyDict],
                  duplicates   |-> dups,
                  duplicate    |-> FALSE,
                  missing_data |-> missing,
                  to_delete    |-> {}])
    IN [data          |-> entries,
        duplicates    |-> r.duplicates,
        missing_data  |-> r.missing_data,
        missing_chars |-> {sorter_oovs[k] : k \in 1..Len(sorter_oovs)}]

\* dictionary.py 229-269
check_data(entries, dups, missing, sorter_oovs) ==
    LET r == CheckLoop(entries, 1,
                 [counters     |-> [key \in {duplicate_fields_subset[k] :
                                        k \in 1..Len(duplicate_fields_subset)} |-> EmptyDict],
                  duplicates   |-> dups,
                  duplicate    |-> FALSE,
                  missing_data |-> missing,
                  to_delete    |-> {}])
        kept == {i \in 1..Len(entries) : i \notin r.to_delete}
        Nth(n) == CHOOSE i \in kept : Cardinality({m \in kept : m < i}) = n - 1
    IN [data          |-> [n \in 1..Cardinality(kept) |-> entries[Nth(n)]],
        duplicates    |-> r.duplicates,
        missing_data  |-> r.missing_data,
        missing_chars |-> {sorter_oovs[k] : k \in 1..Len(sorter_oovs)}]

\* a plausible slip: the KeyError of the sorter is not caught
sort_step_uncaught(alts, ign, st, entries, field) ==
    LET r == return_sorted_data(alts, ign, st, entries, field, "sorting_form")
    IN IF r.raised = "KeyError"
       THEN [r EXCEPT !.raised = [type |-> "KeyError", key |-> field, fieldnames |-> {}]]
       ELSE [r EXCEPT !.raised = [type |-> "none"]]

\* dictionary.py 136-141: the sorter's KeyError becomes a ConfigurationError that
\* names sorting_field and self.data[0].keys()
sort_step(alts, ign, st, entries, field) ==
    LET r == return_sorted_data(alts, ign, st, entries, field, "sorting_form")
    IN IF r.raised = "KeyError"
       THEN [r EXCEPT !.raised = [type |-> "ConfigurationError", key |-> field,
                                  fieldnames |-> DOMAIN r.items[1]]]
       ELSE [r EXCEPT !.raised = [type |-> "none"]]

(***************************************************************************)
(* DictSpec: a dictionary built with parse_data_on_initialization=False,   *)
(* and initialize() called on it, once, as the constructor calls it.       *)
(***************************************************************************)
\* the longest resource handed to one initialize()
MaxResource == 2

\* raw entries: complete; with a sort_form; with a sort_form and an OOV character;
\* without entryID, the word of the second; the entryID of the first and an
\* empty definition; without definition
RawEntries ==
    { [entryID |-> "1", word |-> <<97, 98, 97>>, definition |-> <<120>>],
      [entryID |-> "2", word |-> <<97>>, definition |-> <<120>>, sort_form |-> <<97>>],
      [entryID |-> "3", word |-> <<363, 97>>, definition |-> <<121>>, sort_form |-> <<363, 97>>],
      [word |-> <<97>>, definition |-> <<121>>],
      [entryID |-> "1", word |-> <<99, 97>>, definition |-> <<>>],
      [entryID |-> "6", word |-> <<97, 97, 98, 97>>] }

Resources == UNION { [1..n -> RawEntries] : n \in 0..MaxResource }

DictInit ==
    /\ \E cfg \in SorterConfigs : NewSorter(cfg)
    /\ keys = EmptyDict
    /\ call = [op |-> "init"]
    /\ sorting_field \in {"word", "sort_form"}
    /\ data = <<>>
    /\ duplicates = <<>>
    /\ missing_data = {}
    /\ missing_chars = {}
    /\ raised = [type |-> "none"]
    /\ NoIndex
    /\ NoPipeline

\* dictionary.initialize() over the entries of one resource
InitializeWith(resource) ==
        \E parsed \in {ParseLoop(resource, 0, 0,
                                 [initialized_data |-> <<>>, missing_data |-> missing_data])} :
        \E sorted \in {sort_step(split_order(order), ignorable,
                                 [c2o  |-> InitCharToOrd(order),
                                  o2c  |-> InitOrdToChar(InitCharToOrd(order)),
                                  oovs |-> <<>>],
                                 data \o parsed.initialized_data, sorting_field)} :
        \E checked \in {check_data(sorted.result, duplicates, parsed.missing_data, sorted.oovs)} :
            /\ call.op = "init"
            /\ splitter' = split_order(order)
            /\ char_to_ord_lookup' = sorted.c2o
            /\ ord_to_char_lookup' = sorted.o2c
            /\ oovs' = sorted.oovs
            /\ keys' = EmptyDict
            /\ call' = [op |-> "sort", item_list |-> data \o parsed.initialized_data,
                        target |-> sorting_field, raised |-> sorted.raised.type,
                        result |-> sorted.result]
            /\ raised' = sorted.raised
            /\ IF sorted.raised.type = "none"
               THEN /\ data' = checked.data
                    /\ duplicates' = checked.duplicates
                    /\ missing_data' = checked.missing_data
                    /\ missing_chars' = checked.missing_chars
               ELSE /\ data' = sorted.items
                    /\ missing_data' = parsed.missing_data
                    /\ UNCHANGED <<duplicates, missing_chars>>
            /\ UNCHANGED <<order, ignorable, sorting_field, indexVars, pipelineVars>>

\* dictionary.initialize()
Initialize == \E resource \in Resources : InitializeWith(resource)

DictNext == Initialize

DictSpec == DictInit /\ [][DictNext]_vars

(***************************************************************************)
(* The inverted index (processors/index_builder.py).  An entry is a        *)
(* function from field names to values: entryID is a string, every other   *)
(* field is a str, a list of str, or None, written [kind, items].  A str   *)
(* is a sequence of code points; a field key is a plain field name; the    *)
(* index self.data is a function from terms to functions from entryIDs to  *)
(* postings.  A float is a whole number of thousandths.                    *)
(***************************************************************************)
MaxDocs == 2

MaxBuilds == 2

MaxScorings == 2

StrValue(text) == [kind |-> "str", items |-> <<text>>]

ListValue(texts) == [kind |-> "list", items |-> texts]

NoneValue == [kind |-> "None", items |-> <<>>]

\* str.lower() on ASCII
Lower(text) == [k \in 1..Len(text) |-> IF text[k] \in 65..90 THEN text[k] + 32 ELSE text[k]]

\* re.sub over a character class: the code points of the class are dropped
RECURSIVE RemoveClass(_, _, _)
RemoveClass(class, text, k) ==
    IF k > Len(text) THEN <<>>
    ELSE (IF text[k] \in class THEN <<>> ELSE <<text[k]>>) \o RemoveClass(class, text, k + 1)

\* the class [\u0300-\u036f] of remove_combining_characters
CombiningCharacters == 768..879

\* RestrictedTransducer.remove_punctuation: [.,/#!$%^&?*';:{}=\-_`~()]
Punctuation == {46, 44, 47, 35, 33, 36, 37, 94, 38, 63, 42, 39, 59, 58, 123, 125, 61, 45,
                95, 96, 126, 40, 41}

\* unicodedata.normalize("NFD", text) on the letters of this model: u with macron
\* and i with ogonek fall apart into the letter and its combining mark
RECURSIVE NFD(_, _)
NFD(text, k) ==
    IF k > Len(text) THEN <<>>
    ELSE (IF text[k] = 363 THEN <<117, 772>>
          ELSE IF text[k] = 303 THEN <<105, 808>>
          ELSE <<text[k]>>) \o NFD(text, k + 1)

\* RestrictedTransducer().create_callable() with its defaults: lower, NFD and the
\* removal of the combining characters, NFC (which finds nothing left to compose),
\* the removal of punctuation
create_callable(text) ==
    RemoveClass(Punctuation, RemoveClass(CombiningCharacters, NFD(Lower(text), 1), 1), 1)

\* str.split(): the maximal runs of code points that are not white space
RECURSIVE SplitWhitespace(_, _, _)
SplitWhitespace(text, k, pending) ==
    IF k > Len(text) THEN Piece(pending)
    ELSE IF text[k] = 32 THEN Piece(pending) \o SplitWhitespace(text, k + 1, <<>>)
    ELSE SplitWhitespace(text, k + 1, Append(pending, text[k]))

\* SnowballStemmer("english").stem on the short ASCII tokens of this model: the word
\* is lowered, a word of one or two letters is left alone, and a final s goes when
\* a vowel stands before the letter that precedes it
Vowels == {97, 101, 105, 111, 117, 121}

DEFAULT_STEMMER(term) ==
    LET word == Lower(term)
    IN  IF /\ Len(word) > 2
           /\ word[Len(word)] = 115
           /\ word[Len(word) - 1] \notin Vowels \cup {115}
           /\ \E k \in 1..(Len(word) - 2) : word[k] \in Vowels
        THEN SubSeq(word, 1, Len(word) - 1)
        ELSE word

\* a plausible slip: the stemmer is applied to the normalized value, which is split
\* afterwards
process_terms_stemming_first(normalize, stemmer, entry_data) ==
    LET normalized == IF normalize = "None" THEN entry_data ELSE create_callable(entry_data)
    IN  SplitWhitespace(IF stemmer = "None" THEN normalized ELSE DEFAULT_STEMMER(normalized),
                        1, <<>>)

\* InvertedIndex._process_terms
process_terms(normalize, stemmer, entry_data) ==
    LET normalized == IF normalize = "None" THEN entry_data ELSE create_callable(entry_data)
        terms      == SplitWhitespace(normalized, 1, <<>>)
    IN  IF stemmer = "None" THEN terms
        ELSE [k \in 1..Len(terms) |-> DEFAULT_STEMMER(terms[k])]

\* a plausible slip: the new location replaces the list instead of joining it
push_location_overwriting(posting, location) == Put(posting, "location", <<location>>)

\* self.data[term][doc_id]["location"].append([key, location_index])
push_location(posting, location) ==
    Put(posting, "location", Append(posting.location, location))

\* InvertedIndex._add_index; ix.data is self.data and ix.order its key order
add_index(ix, term, doc_id, key, location_index) ==
    IF term \in DOMAIN ix.data
    THEN IF doc_id \in DOMAIN ix.data[term]
         THEN [ix EXCEPT !.data[term][doc_id] = push_location(@, <<key, location_index>>)]
         ELSE [ix EXCEPT !.data[term] =
                              Put(@, doc_id, [location |-> <<<<key, location_index>>>>])]
    ELSE [ix EXCEPT !.data  = Put(@, term, Put(EmptyDict, doc_id,
                                               [location |-> <<<<key, location_index>>>>])),
                    !.order = Append(@, term)]

\* key + key_indices[i] in build(): "" for a value that is no list, "[i]" for the
\* i-th element of a list, counted from 0
key_index(key, kind, i) ==
    IF kind = "list" THEN key \o "[" \o ToString(i - 1) \o "]" ELSE key

\* Counter.update(set(terms))
CounterUpdate(counter, termset) ==
    [t \in DOMAIN counter \cup termset |->
        (IF t \in DOMAIN counter THEN counter[t] ELSE 0) + (IF t \in termset THEN 1 ELSE 0)]

\* for j, term in enumerate(terms): self._add_index(term, doc_id, value_item_key, j)
RECURSIVE TermLoop(_, _, _, _, _)
TermLoop(terms, j, doc_id, value_item_key, ix) ==
    IF j > Len(terms) THEN ix
    ELSE TermLoop(terms, j + 1, doc_id, value_item_key,
                  add_index(ix, terms[j], doc_id, value_item_key, j - 1))

\* for i, value_item in enumerate(value)
RECURSIVE ValueLoop(_, _, _, _, _, _, _)
ValueLoop(normalize, stemmer, doc_id, key, value, i, acc) ==
    IF value.kind = "None" THEN [acc EXCEPT !.raised = "AttributeError"]
    ELSE IF i > Len(value.items) THEN acc
    ELSE LET terms   == process_terms(normalize, stemmer, value.items[i])
             termset == {terms[k] : k \in 1..Len(terms)}
             counter == IF key \in DOMAIN acc.dfc THEN acc.dfc[key] ELSE EmptyDict
             lengths == IF key \in DOMAIN acc.dl THEN acc.dl[key] ELSE EmptyDict
             ix      == TermLoop(terms, 1, doc_id, key_index(key, value.kind, i),
                                 [data |-> acc.data, order |-> acc.order])
         IN  ValueLoop(normalize, stemmer, doc_id, key, value, i + 1,
                       [acc EXCEPT !.dfc   = Put(@, key, CounterUpdate(counter, termset)),
                                   !.dl    = Put(@, key, Put(lengths, doc_id, Len(terms))),
                                   !.data  = ix.data,
                                   !.order = ix.order])

\* for key in self.keys_to_index
RECURSIVE KeyLoop(_, _, _, _, _, _)
KeyLoop(normalize, stemmer, keylist, entry, k, acc) ==
    IF k > Len(keylist) \/ acc.raised # "none" THEN acc
    ELSE KeyLoop(normalize, stemmer, keylist, entry, k + 1,
                 IF keylist[k] \in DOMAIN entry
                 THEN ValueLoop(normalize, stemmer, entry.entryID, keylist[k],
                                entry[keylist[k]], 1, acc)
                 ELSE acc)

\* for entry in self.raw_data
RECURSIVE EntryLoop(_, _, _, _, _, _)
EntryLoop(normalize, stemmer, keylist, entries, n, acc) ==
    IF n > Len(entries) \/ acc.raised # "none" THEN acc
    ELSE EntryLoop(normalize, stemmer, keylist, entries, n + 1,
                   KeyLoop(normalize, stemmer, keylist, entries[n], 1, acc))

\* InvertedIndex.build(): the two counters start empty, self.data is kept
build(normalize, stemmer, keylist, entries, old_data, old_order) ==
    EntryLoop(normalize, stemmer, keylist, entries, 1,
              [data |-> old_data, order |-> old_order, dfc |-> EmptyDict,
               dl |-> EmptyDict, raised |-> "none"])

\* math.log(n + 0.5) for n = 0, 1, 2, ..., in thousandths
LogHalfTable == <<-693, 405, 916, 1253, 1504, 1705, 1872, 2015, 2140, 2251, 2351, 2442, 2526,
                  2603, 2674, 2741, 2803>>

LogHalf(n) == LogHalfTable[n + 1]

\* the defaults of calculate_scores(b=0.75, k1=1.5, epsilon=0.25), in thousandths
score_b == 750

score_k1 == 1500

score_epsilon == 250

RECURSIVE SumOver(_, _)
SumOver(f, S) ==
    IF S = {} THEN 0
    ELSE LET x == CHOOSE y \in S : TRUE IN f[x] + SumOver(f, S \ {x})

\* len(doc[key]) if isinstance(doc[key], list) else 1, for the docs whose doc[key] is truthy
DocCount(value) ==
    IF value.kind = "list" THEN Len(value.items)
    ELSE IF value.kind = "str" /\ value.items[1] # <<>> THEN 1
    ELSE 0

RECURSIVE n_documents(_, _, _)
n_documents(entries, key, n) ==
    IF n > Len(entries) THEN 0
    ELSE DocCount(entries[n][key]) + n_documents(entries, key, n + 1)

\* IDF = math.log(n_documents - document_frequency + 0.5) - math.log(document_frequency + 0.5)
idf(N, document_frequency) == LogHalf(N - document_frequency) - LogHalf(document_frequency)

\* InvertedIndex._calculate_idf, from key number k on; acc.IDFS is self.IDFS
RECURSIVE calculate_idf(_, _, _, _, _, _, _)
calculate_idf(keylist, entries, terms, is_built, dfc, k, acc) ==
    IF k > Len(keylist) \/ acc.raised # "none" THEN acc
    ELSE LET key == keylist[k]
         IN  IF \E n \in 1..Len(entries) : key \notin DOMAIN entries[n]
             THEN [acc EXCEPT !.raised = "KeyError"]
             ELSE IF terms = {}
             THEN calculate_idf(keylist, entries, terms, is_built, dfc, k + 1,
                                [acc EXCEPT !.IDFS = Put(@, key, EmptyDict)])
             ELSE IF ~is_built
             THEN [acc EXCEPT !.IDFS = Put(@, key, EmptyDict), !.raised = "AttributeError"]
             ELSE IF key \notin DOMAIN dfc
             THEN [acc EXCEPT !.IDFS = Put(@, key, EmptyDict), !.raised = "KeyError"]
             ELSE LET N == n_documents(entries, key, 1)
                  IN  calculate_idf(keylist, entries, terms, is_built, dfc, k + 1,
                        [acc EXCEPT !.IDFS = Put(@, key,
                            [t \in terms |->
                                idf(N, IF t \in DOMAIN dfc[key] THEN dfc[key][t] ELSE 0)])])

\* re.sub(r"\[\d+\]", "", x[0]) == key, for a location key that build() made of a
\* field name
SameField(location_key, key) ==
    \/ location_key = key
    \/ \E i \in 0..9 : location_key = key \o "[" \o ToString(i) \o "]"

\* term_frequency: the locations of the posting that lie in the field
term_frequency(posting, key) ==
    Cardinality({n \in 1..Len(posting.location) : SameField(posting.location[n][1], key)})

\* a plausible slip: a negative IDF is used as it is
corrected_idf_unbounded(value, avg_idf) == value

\* correct negative IDF by adding lower bound: epsilon * avg_idf
corrected_idf(value, avg_idf) ==
    IF value < 0 THEN (score_epsilon * avg_idf) \div 1000 ELSE value

\* score = IDF * (tf * (k1 + 1) / (tf + k1 * (1 - b + b * dl / avgdl)))
bm25(IDF, tf, dl, avg_document_length) ==
    LET ratio == (dl * 1000 * 1000) \div avg_document_length
        denom == tf * 1000 + (score_k1 * (1000 - score_b + (score_b * ratio) \div 1000)) \div 1000
    IN  (IDF * tf * (score_k1 + 1000)) \div denom

\* a plausible slip: the total is set to the last field's score instead of added to
scored_total_overwritten(posting, key, score) ==
    LET old == IF "score" \in DOMAIN posting THEN posting.score ELSE EmptyDict
    IN  Put(posting, "score", Put(Put(old, key, score), "total", score))

\* the score of one posting under one key, added to its total
scored(posting, key, score) ==
    LET old == IF "score" \in DOMAIN posting THEN posting.score ELSE EmptyDict
        new == Put(old, key, score)
    IN  Put(posting, "score",
            Put(new, "total", IF "total" \in DOMAIN old THEN old["total"] + score ELSE score))

\* InvertedIndex._calculate_score, from key number k on; acc.data is self.data
RECURSIVE calculate_score(_, _, _, _, _, _)
calculate_score(keylist, key_order, is_built, dl, k, acc) ==
    IF k > Len(keylist) \/ acc.raised # "none" THEN acc
    ELSE LET key      == keylist[k]
             idfs     == acc.IDFS[key]
             positive == {t \in DOMAIN idfs : idfs[t] > 0}
         IN  IF DOMAIN idfs = {} THEN [acc EXCEPT !.raised = "ZeroDivisionError"]
             ELSE IF ~is_built THEN [acc EXCEPT !.raised = "AttributeError"]
             ELSE IF key \notin DOMAIN dl THEN [acc EXCEPT !.raised = "KeyError"]
             ELSE LET avg_idf == SumOver(idfs, positive) \div Cardinality(DOMAIN idfs)
                      n_all_words == SumOver(dl[key], DOMAIN dl[key])
                      avg_document_length ==
                          (n_all_words * 1000) \div Cardinality(DOMAIN dl[key])
                      corrected == [t \in DOMAIN idfs |-> corrected_idf(idfs[t], avg_idf)]
                  IN  IF avg_document_length = 0
                      THEN [acc EXCEPT !.IDFS[key][key_order[1]] = corrected[key_order[1]],
                                       !.raised = "ZeroDivisionError"]
                      ELSE calculate_score(keylist, key_order, is_built, dl, k + 1,
                             [acc EXCEPT
                                !.IDFS[key] = corrected,
                                !.data = [t \in DOMAIN acc.data |->
                                            [doc \in DOMAIN acc.data[t] |->
                                                scored(acc.data[t][doc], key,
                                                       bm25(corrected[t],
                                                            term_frequency(acc.data[t][doc], key),
                                                            IF doc \in DOMAIN dl[key]
                                                            THEN dl[key][doc] ELSE 0,
                                                            avg_document_length))]]])

\* InvertedIndex.calculate_scores(): _calculate_idf(), then _calculate_score()
calculate_scores(keylist, entries, old_data, key_order, is_built, dfc, dl) ==
    LET idfs == calculate_idf(keylist, entries, DOMAIN old_data, is_built, dfc, 1,
                              [IDFS |-> EmptyDict, raised |-> "none"])
    IN  IF idfs.raised # "none"
        THEN [data |-> old_data, IDFS |-> idfs.IDFS, raised |-> idfs.raised]
        ELSE calculate_score(keylist, key_order, is_built, dl, 1,
                             [data |-> old_data, IDFS |-> idfs.IDFS, raised |-> "none"])

\* sorted(self.raw_data, key=lambda x: x["entryID"]): the entryIDs of the model in
\* the order Python gives their strings
EntryIDs == <<"1", "2", "3", "4", "6", "YourData00", "YourData01", "YourData02">>

IdRank(id) == CHOOSE k \in 1..Len(EntryIDs) : EntryIDs[k] = id

\* a plausible slip: the entries are kept in the order in which they were supplied
KeptAsSupplied(entries, n, acc) == entries

RECURSIVE SortedByEntryID(_, _, _)
SortedByEntryID(entries, n, acc) ==
    IF n > Len(entries) THEN acc
    ELSE LET behind == {p \in 1..Len(acc) :
                            IdRank(acc[p].entryID) <= IdRank(entries[n].entryID)}
             at     == IF behind = {} THEN 0 ELSE CHOOSE p \in behind : \A q \in behind : q <= p
         IN  SortedByEntryID(entries, n + 1,
                             SubSeq(acc, 1, at) \o <<entries[n]>> \o SubSeq(acc, at + 1, Len(acc)))

\* The entries the index is built over: "a", "a, b", ["b a", "a"]; "B", "a", [];
\* "a a", "", ["c"]; and a raw entry "cabs a" whose definition is None and that has
\* no example_sentence.
IndexEntries ==
    { [entryID |-> "1", word |-> StrValue(<<97>>),
       definition |-> StrValue(<<97, 44, 32, 98>>),
       example_sentence |-> ListValue(<< <<98, 32, 97>>, <<97>> >>)],
      [entryID |-> "2", word |-> StrValue(<<66>>),
       definition |-> StrValue(<<97>>),
       example_sentence |-> ListValue(<<>>)],
      [entryID |-> "3", word |-> StrValue(<<97, 32, 97>>),
       definition |-> StrValue(<<>>),
       example_sentence |-> ListValue(<< <<99>> >>)],
      [entryID |-> "4", word |-> StrValue(<<99, 97, 98, 115, 32, 97>>),
       definition |-> NoneValue] }

\* raw_data as it is handed to the constructor: entries with distinct entryIDs, in
\* any order
RawData ==
    {entries \in UNION {[1..n -> IndexEntries] : n \in 0..MaxDocs} :
        \A p, q \in 1..Len(entries) : p # q => entries[p].entryID # entries[q].entryID}

KeyLists ==
    { <<>>, <<"word">>, <<"definition">>, <<"word", "definition">>,
      <<"word", "example_sentence">>, <<"definition", "word", "example_sentence">> }

\* normalization_function and stemmer_function as create_inverted_index passes them
Processing ==
    { [normalize |-> "None", stemmer |-> "None"],
      [normalize |-> "create_callable", stemmer |-> "None"],
      [normalize |-> "create_callable", stemmer |-> "DEFAULT_STEMMER"] }

\* InvertedIndex.__init__
IndexInit ==
    /\ \E cfg \in {c \in SorterConfigs : c.ignorable = {}} : NewSorter(cfg)
    /\ keys = EmptyDict
    /\ call = [op |-> "init"]
    /\ NoDictionary
    /\ NoPipeline
    /\ \E entries \in RawData :
           raw_data = IF entries # <<>> THEN SortedByEntryID(entries, 1, <<>>) ELSE entries
    /\ keys_to_index \in KeyLists
    /\ \E p \in Processing : /\ normalization_function = p.normalize
                             /\ stemmer_function = p.stemmer
    /\ index_data = EmptyDict
    /\ term_order = <<>>
    /\ built = FALSE
    /\ doc_frequency_counter = EmptyDict
    /\ document_lengths = EmptyDict
    /\ IDFS = EmptyDict
    /\ index_call = [op |-> "init", raised |-> "none", builds |-> 0, scorings |-> 0]

\* index.build()
Build ==
    /\ index_call.builds < MaxBuilds
    /\ \E r \in {build(normalization_function, stemmer_function, keys_to_index, raw_data,
                       index_data, term_order)} :
           /\ index_data' = r.data
           /\ term_order' = r.order
           /\ doc_frequency_counter' = r.dfc
           /\ document_lengths' = r.dl
           /\ built' = TRUE
           /\ index_call' = [index_call EXCEPT !.op = "build", !.raised = r.raised,
                                               !.builds = @ + 1]
    /\ UNCHANGED <<sorterVars, dictVars, pipelineVars, raw_data, keys_to_index, normalization_function,
                   stemmer_function, IDFS>>

\* index.calculate_scores()
CalculateScores ==
    /\ index_call.scorings < MaxScorings
    /\ \E r \in {calculate_scores(keys_to_index, raw_data, index_data, term_order, built,
                                  doc_frequency_counter, document_lengths)} :
           /\ index_data' = r.data
           /\ IDFS' = r.IDFS
           /\ index_call' = [index_call EXCEPT !.op = "calculate_scores", !.raised = r.raised,
                                               !.scorings = @ + 1]
    /\ UNCHANGED <<sorterVars, dictVars, pipelineVars, raw_data, keys_to_index, normalization_function,
                   stemmer_function, term_order, built, doc_frequency_counter,
                   document_lengths>>

\* index.clear()
Clear ==
    /\ index_call.op # "clear"
    /\ index_data' = EmptyDict
    /\ term_order' = <<>>
    /\ raw_data' = <<>>
    /\ index_call' = [index_call EXCEPT !.op = "clear", !.raised = "none"]
    /\ UNCHANGED <<sorterVars, dictVars, pipelineVars, keys_to_index, normalization_function,
                   stemmer_function, built, doc_frequency_counter, document_lengths, IDFS>>

IndexNext == Build \/ CalculateScores \/ Clear

IndexSpec == IndexInit /\ [][IndexNext]_vars

(***************************************************************************)
(* PipelineSpec: a configuration is validated, the dictionary is           *)
(* initialized, and the two indices of build_indices are made.  Each index *)
(* goes through InvertedIndex(...), build() and calculate_scores(); the    *)
(* steps of the two indices are taken in any order, of which the order of  *)
(* build_indices (all of l1, then all of l2) is one.  An index holds its   *)
(* self.data by reference: index_dicts maps the name of a dict to its      *)
(* postings and their key order.                                           *)
(***************************************************************************)
\* StemmerEnum
StemmerEnum == {"snowball_english", "none"}

\* what a configuration file may say for l1_stemmer and l2_stemmer
StemmerSelections == {"snowball_english", "none", "porter"}

\* LanguageConfiguration(...): pydantic validates l1_stemmer and l2_stemmer against
\* StemmerEnum and raises ValidationError, so that no configuration object exists
LanguageConfiguration(l1_selection, l2_selection, l1_keys, l2_keys) ==
    IF l1_selection \in StemmerEnum /\ l2_selection \in StemmerEnum
    THEN [raised |-> "none", l1_stemmer |-> l1_selection, l2_stemmer |-> l2_selection,
          l1_keys_to_index |-> l1_keys, l2_keys_to_index |-> l2_keys]
    ELSE [raised |-> "ValidationError", l1_stemmer |-> l1_selection,
          l2_stemmer |-> l2_selection]

\* a plausible slip: the selection is compared with a name StemmerEnum does not have
resolve_stemmer_never(selection) ==
    IF selection = "snowball" THEN "DEFAULT_STEMMER" ELSE "None"

\* create_inverted_index: DEFAULT_STEMMER if the selection is snowball_english else None
resolve_stemmer(selection) ==
    IF selection = "snowball_english" THEN "DEFAULT_STEMMER" ELSE "None"

\* a plausible slip: the list is sorted where it is, self.raw_data.sort(key=...)
init_raw_data_in_place(entries) ==
    IF entries # <<>>
    THEN [own |-> SortedByEntryID(entries, 1, <<>>), callers |-> SortedByEntryID(entries, 1, <<>>)]
    ELSE [own |-> entries, callers |-> entries]

\* InvertedIndex.__init__: sorted() makes a new list for self.raw_data and leaves
\* the list of the caller as it is
init_raw_data(entries) ==
    IF entries # <<>>
    THEN [own |-> SortedByEntryID(entries, 1, <<>>), callers |-> entries]
    ELSE [own |-> entries, callers |-> entries]

\* a plausible slip: data = {} in the class body, one dict for every instance
index_data_of_class(lang) == "InvertedIndex.data"

\* self.data = {} in __init__: a dict of the instance, named here after the index
index_data_at_init(lang) == lang \o ".data"

\* {} evaluated: a dict that is not there yet is made, empty
NewDict(dicts, name) ==
    IF name \in DOMAIN dicts THEN dicts
    ELSE Put(dicts, name, [data |-> EmptyDict, order |-> <<>>])

\* an entry as the index reads it: the str fields a key of keys_to_index names
IndexView(entry) ==
    [f \in DOMAIN entry \cap {"entryID", "word", "definition", "sort_form"} |->
        IF f = "entryID" THEN entry[f] ELSE StrValue(entry[f])]

IndexViews(entries) == [n \in 1..Len(entries) |-> IndexView(entries[n])]

\* create_inverted_index(data, config, l1_or_l2)
create_inverted_index(entries, cfg, lang) ==
    LET r == init_raw_data(entries)
    IN [index |->
            [phase |-> "created",
             raw_data |-> r.own,
             keys_to_index |-> IF lang = "l1" THEN cfg.l1_keys_to_index
                               ELSE cfg.l2_keys_to_index,
             normalization_function |-> "create_callable",
             stemmer_function |-> resolve_stemmer(IF lang = "l1" THEN cfg.l1_stemmer
                                                  ELSE cfg.l2_stemmer),
             data |-> index_data_at_init(lang),
             built |-> FALSE,
             doc_frequency_counter |-> EmptyDict,
             document_lengths |-> EmptyDict,
             IDFS |-> EmptyDict],
        callers |-> r.callers]

Languages == {"l1", "l2"}

IndexOf(lang) == IF lang = "l1" THEN l1_index ELSE l2_index

SetIndex(lang, index) ==
    IF lang = "l1" THEN l1_index' = index /\ UNCHANGED l2_index
    ELSE l2_index' = index /\ UNCHANGED l1_index

\* LanguageConfiguration.l1_keys_to_index and l2_keys_to_index, by default
l1_keys_to_index == <<"word">>

l2_keys_to_index == <<"definition">>

\* the entries a resource of the pipeline is made of: three complete entries whose
\* order by word is not their order by entryID
PipelineEntries == {entry \in RawEntries : Validates(entry) /\ "entryID" \in DOMAIN entry
                                           /\ Truthy(entry.definition)}

PipelineResources == UNION { [1..n -> PipelineEntries] : n \in 0..MaxResource }

PipelineInit ==
    /\ \E cfg \in {c \in SorterConfigs : c.ignorable = {}} : NewSorter(cfg)
    /\ keys = EmptyDict
    /\ call = [op |-> "init"]
    /\ sorting_field = "word"
    /\ data = <<>>
    /\ duplicates = <<>>
    /\ missing_data = {}
    /\ missing_chars = {}
    /\ raised = [type |-> "none"]
    /\ NoIndex
    /\ NoPipeline

\* the configuration is loaded
Configure ==
    /\ config.raised = "unset"
    /\ \E l1_selection, l2_selection \in StemmerSelections :
           config' = LanguageConfiguration(l1_selection, l2_selection,
                                           l1_keys_to_index, l2_keys_to_index)
    /\ UNCHANGED <<sorterVars, dictVars, indexVars, l1_index, l2_index, index_dicts,
                   export_result>>

\* MTDictionary(config): initialize()
PipelineInitialize ==
    /\ config.raised = "none"
    /\ \E resource \in PipelineResources : InitializeWith(resource)

\* return_single_index(lang): result = create_inverted_index(self.data, self.config, lang)
CreateIndex ==
    /\ config.raised = "none"
    /\ call.op = "sort"
    /\ raised.type = "none"
    /\ \E lang \in Languages :
           /\ IndexOf(lang).phase = "None"
           /\ \E r \in {create_inverted_index(data, config, lang)} :
                  /\ SetIndex(lang, r.index)
                  /\ index_dicts' = NewDict(index_dicts, r.index.data)
                  /\ data' = r.callers
    /\ UNCHANGED <<sorterVars, sorting_field, duplicates, missing_data, missing_chars,
                   raised, indexVars, config, export_result>>

\* a plausible slip: calculate_scores() is called before build()
next_step_scoring_first(phase, entries) ==
    IF phase = "created" THEN (IF entries # <<>> THEN "calculate_scores" ELSE "return")
    ELSE IF phase = "scored" THEN "build"
    ELSE "return"

\* return_single_index(lang): what comes after the step that brought the index to
\* the phase: build() after the constructor if self.data, calculate_scores() after
\* build(), and otherwise the return
next_step(phase, entries) ==
    IF phase = "created" THEN (IF entries # <<>> THEN "build" ELSE "return")
    ELSE IF phase = "built" THEN "calculate_scores"
    ELSE "return"

\* return_single_index(lang): if self.data: result.build()
BuildIndex ==
    \E lang \in Languages :
        /\ IndexOf(lang).phase \in {"created", "built", "scored"}
        /\ next_step(IndexOf(lang).phase, data) = "build"
        /\ \E ix \in {IndexOf(lang)} :
           \E r \in {build(ix.normalization_function, ix.stemmer_function, ix.keys_to_index,
                           IndexViews(ix.raw_data), index_dicts[ix.data].data,
                           index_dicts[ix.data].order)} :
               /\ index_dicts' = [index_dicts EXCEPT ![ix.data] =
                                      [data |-> r.data, order |-> r.order]]
               /\ SetIndex(lang, [ix EXCEPT !.phase = IF r.raised = "none" THEN "built"
                                                      ELSE r.raised,
                                            !.built = TRUE,
                                            !.doc_frequency_counter = r.dfc,
                                            !.document_lengths = r.dl])
        /\ UNCHANGED <<sorterVars, dictVars, indexVars, config, export_result>>

\* return_single_index(lang): result.calculate_scores()
ScoreIndex ==
    \E lang \in Languages :
        /\ IndexOf(lang).phase \in {"created", "built", "scored"}
        /\ next_step(IndexOf(lang).phase, data) = "calculate_scores"
        /\ \E ix \in {IndexOf(lang)} :
           \E r \in {calculate_scores(ix.keys_to_index, IndexViews(ix.raw_data),
                                      index_dicts[ix.data].data, index_dicts[ix.data].order,
                                      ix.built, ix.doc_frequency_counter,
                                      ix.document_lengths)} :
               /\ index_dicts' = [index_dicts EXCEPT ![ix.data].data = r.data]
               /\ SetIndex(lang, [ix EXCEPT !.phase = IF r.raised = "none" THEN "scored"
                                                      ELSE r.raised,
                                            !.IDFS = r.IDFS])
        /\ UNCHANGED <<sorterVars, dictVars, indexVars, config, export_result>>

\* InvertedIndex.build() and calculate_scores() on an index object ix whose self.data
\* is in dicts: the object and the dicts afterwards, and what was raised
built_index(ix, dicts) ==
    LET b == build(ix.normalization_function, ix.stemmer_function, ix.keys_to_index,
                   IndexViews(ix.raw_data), dicts[ix.data].data, dicts[ix.data].order)
    IN [index  |-> [ix EXCEPT !.phase = IF b.raised = "none" THEN "built" ELSE b.raised,
                              !.built = TRUE,
                              !.doc_frequency_counter = b.dfc,
                              !.document_lengths = b.dl],
        dicts  |-> [dicts EXCEPT ![ix.data] = [data |-> b.data, order |-> b.order]],
        raised |-> b.raised]

scored_index(ix, dicts) ==
    LET s == calculate_scores(ix.keys_to_index, IndexViews(ix.raw_data), dicts[ix.data].data,
                              dicts[ix.data].order, ix.built, ix.doc_frequency_counter,
                              ix.document_lengths)
    IN [index  |-> [ix EXCEPT !.phase = IF s.raised = "none" THEN "scored" ELSE s.raised,
                              !.IDFS = s.IDFS],
        dicts  |-> [dicts EXCEPT ![ix.data].data = s.data],
        raised |-> s.raised]

\* MTDictionary.return_single_index(lang), from the call to its return or its raise
return_single_index(entries, cfg, lang, dicts) ==
    LET c  == create_inverted_index(entries, cfg, lang)
        d0 == NewDict(dicts, c.index.data)
    IN  IF c.callers = <<>>
        THEN [index |-> c.index, dicts |-> d0, callers |-> c.callers, raised |-> "none"]
        ELSE LET b == built_index(c.index, d0)
             IN  IF b.raised # "none"
                 THEN [index |-> b.index, dicts |-> b.dicts, callers |-> c.callers,
                       raised |-> b.raised]
                 ELSE LET s == scored_index(b.index, b.dicts)
                      IN  [index |-> s.index, dicts |-> s.dicts, callers |-> c.callers,
                           raised |-> s.raised]

\* return_single_index(lang) has returned the index
Returned(ix) ==
    /\ ix.phase \in {"created", "built", "scored"}
    /\ next_step(ix.phase, data) = "return"

\* self.lX_index as export() leaves it: made now if it is None
IndexForExport(ix, entries, lang, dicts) ==
    IF ix.phase = "None" THEN return_single_index(entries, config, lang, dicts)
    ELSE [index |-> ix, dicts |-> dicts, callers |-> entries, raised |-> "none"]

\* MTDictionary.export(): an index that is still None is made, built and scored
\* first; the export format takes self.data and the self.data of the two indices
Export ==
    /\ config.raised = "none"
    /\ call.op = "sort"
    /\ raised.type = "none"
    /\ export_result.raised = "unset"
    /\ \A lang \in Languages : IndexOf(lang).phase = "None" \/ Returned(IndexOf(lang))
    /\ \E r1 \in {IndexForExport(l1_index, data, "l1", index_dicts)} :
           IF r1.raised # "none"
           THEN /\ export_result' = [raised |-> r1.raised]
                /\ UNCHANGED <<data, l1_index, l2_index, index_dicts>>
           ELSE \E r2 \in {IndexForExport(l2_index, r1.callers, "l2", r1.dicts)} :
                    /\ l1_index' = r1.index
                    /\ data' = r2.callers
                    /\ IF r2.raised # "none"
                       THEN /\ export_result' = [raised |-> r2.raised]
                            /\ index_dicts' = r1.dicts
                            /\ UNCHANGED l2_index
                       ELSE /\ l2_index' = r2.index
                            /\ index_dicts' = r2.dicts
                            /\ export_result' =
                                   [raised   |-> "none",
                                    data     |-> r2.callers,
                                    l1_index |-> r2.dicts[r1.index.data].data,
                                    l2_index |-> r2.dicts[r2.index.data].data]
    /\ UNCHANGED <<sorterVars, sorting_field, duplicates, missing_data, missing_chars,
                   raised, indexVars, config>>

PipelineNext ==
    Configure \/ PipelineInitialize \/ CreateIndex \/ BuildIndex \/ ScoreIndex \/ Export

PipelineSpec == PipelineInit /\ [][PipelineNext]_vars

(***************************************************************************)
(* What the sort key of a word is, stated from the alphabet and the        *)
(* ignorable set alone: the units of the word are, from the left, the      *)
(* longest alphabet grapheme that matches at the position, or else the     *)
(* run of code points up to the next match; a unit that is ignorable gives *)
(* nothing, an alphabet grapheme gives its rank, and a run gives           *)
(* oov_start + code point for each of its code points that is not          *)
(* ignorable.                                                              *)
(***************************************************************************)
Graphemes(ord) == {ord[k] : k \in 1..Len(ord)}

Longest(ord, word, i) ==
    LET lens == {Len(g) : g \in {h \in Graphemes(ord) : StartsWithAt(word, i, h)}}
    IN IF lens = {} THEN 0 ELSE CHOOSE n \in lens : \A m \in lens : m <= n

Run(pending) == IF pending = <<>> THEN <<>> ELSE <<[text |-> pending, matched |-> FALSE]>>

RECURSIVE RefUnitsFrom(_, _, _, _)
RefUnitsFrom(ord, word, i, pending) ==
    IF i > Len(word) THEN Run(pending)
    ELSE LET n == Longest(ord, word, i) IN
         IF n = 0 THEN RefUnitsFrom(ord, word, i + 1, Append(pending, word[i]))
         ELSE Run(pending) \o <<[text |-> SubSeq(word, i, i + n - 1), matched |-> TRUE]>>
                \o RefUnitsFrom(ord, word, i + n, <<>>)

RefUnits(ord, word) == RefUnitsFrom(ord, word, 1, <<>>)

Rank(ord, g) == (CHOOSE k \in 1..Len(ord) : ord[k] = g) - 1

RefUnitKey(ord, ign, u) ==
    IF u.text \in ign THEN <<>>
    ELSE IF u.matched THEN <<Rank(ord, u.text)>>
    ELSE LET kept == SelectSeq(u.text, LAMBDA cp : <<cp>> \notin ign)
         IN [j \in 1..Len(kept) |-> oov_start + kept[j]]

RefKey(ord, ign, word) ==
    LET us == RefUnits(ord, word)
    IN Join([k \in 1..Len(us) |-> RefUnitKey(ord, ign, us[k])])

\* the code points of the runs of a word, i.e. those no alphabet grapheme covers
RunCodePoints(ord, word) ==
    LET us == RefUnits(ord, word)
    IN UNION { {us[k].text[j] : j \in 1..Len(us[k].text)} :
               k \in {m \in 1..Len(us) : ~us[m].matched} }

\* word is a concatenation of alphabet graphemes
RECURSIVE ComposedFrom(_, _, _)
ComposedFrom(ord, word, i) ==
    \/ i > Len(word)
    \/ \E g \in Graphemes(ord) : StartsWithAt(word, i, g) /\ ComposedFrom(ord, word, i + Len(g))

ComposedOfAlphabet(ord, word) == ComposedFrom(ord, word, 1)

\* word with every occurrence of an ignorable grapheme removed, from the left
RECURSIVE StripFrom(_, _, _)
StripFrom(ign, word, i) ==
    IF i > Len(word) THEN <<>>
    ELSE IF \E g \in ign : StartsWithAt(word, i, g)
         THEN StripFrom(ign, word, i + Len(CHOOSE g \in ign : StartsWithAt(word, i, g)))
         ELSE <<word[i]>> \o StripFrom(ign, word, i + 1)

Strip(ign, word) == StripFrom(ign, word, 1)

\* no unit of the word is dropped as ignorable
NoIgnorableUnit(ord, ign, word) ==
    LET us == RefUnits(ord, word)
    IN \A k \in 1..Len(us) :
          /\ us[k].text \notin ign
          /\ ~us[k].matched => \A j \in 1..Len(us[k].text) : <<us[k].text[j]>> \notin ign

(***************************************************************************)
(* C1..C6: the collation sorter.                                           *)
(***************************************************************************)
\* C1: a sort of entries that all carry the target field returns a permutation
\* of the entries, each annotated with the sort key of its word, in
\* non-decreasing lexicographic order of the keys.
C1_SortedPermutation ==
    (call.op = "sort" /\ \A i \in 1..Len(call.item_list) : call.target \in DOMAIN call.item_list[i]) =>
        /\ call.raised = "none"
        /\ Len(call.result) = Len(call.item_list)
        /\ \A i \in 1..Len(call.item_list) :
              \E j \in 1..Len(call.result) :
                 /\ call.result[j].entryID = call.item_list[i].entryID
                 /\ call.result[j].word = call.item_list[i].word
                 /\ \A k \in 1..Len(call.result) :
                       call.result[k].entryID = call.item_list[i].entryID => k = j
        /\ \A j \in 1..Len(call.result) :
              /\ DOMAIN call.result[j] = {"entryID", "word", "sorting_form"}
              /\ call.result[j].sorting_form = RefKey(order, ignorable, call.result[j].word)
        /\ \A j \in 1..(Len(call.result) - 1) :
              ~ListLess(call.result[j + 1].sorting_form, call.result[j].sorting_form)

\* three entries came in another order than they leave in, one key a proper prefix of another
C1_Witness ==
    /\ call.op = "sort"
    /\ Len(call.result) = 3
    /\ call.result[1].entryID = 3
    /\ call.result[3].entryID = 1
    /\ \E j \in 1..2 :
          /\ Len(call.result[j].sorting_form) < Len(call.result[j + 1].sorting_form)
          /\ ListLess(call.result[j].sorting_form, call.result[j + 1].sorting_form)
          /\ call.result[j].sorting_form =
                SubSeq(call.result[j + 1].sorting_form, 1, Len(call.result[j].sorting_form))

\* C2: word_as_values splits the word, left to right, taking at every position
\* the longest alphabet grapheme that matches, wherever the grapheme stands in
\* the alphabet; with ["a", "b", "aa", "c"], "aaba" gives [2, 1, 0].
C2_GreedyLongestMatch ==
    call.op = "word_as_values" =>
        /\ LET us == RefUnits(order, call.word)
           IN call.split = [k \in 1..Len(us) |-> us[k].text]
        /\ (order = << <<97>>, <<98>>, <<97, 97>>, <<99>> >> /\ call.word = <<97, 97, 98, 97>>)
              => call.values = <<2, 1, 0>>

\* "aaba" was encoded under ["a", "b", "aa", "c"], the digraph listed after "a"
C2_Witness ==
    /\ call.op = "word_as_values"
    /\ order = << <<97>>, <<98>>, <<97, 97>>, <<99>> >>
    /\ call.word = <<97, 97, 98, 97>>
    /\ call.split = << <<97, 97>>, <<98>>, <<97>> >>

LoneIgnorable(ord, ign, cp) ==
    /\ <<cp>> \in ign
    /\ \A g \in Graphemes(ord) : Len(g) > 1 => \A j \in 1..Len(g) : g[j] # cp

\* word is core with ignorable code points in front of it and behind it only
AroundCore(ord, ign, word, core) ==
    \E m \in 0..Len(word) : \E n \in m..Len(word) :
        /\ core = SubSeq(word, m + 1, n)
        /\ \A i \in (1..m) \cup ((n + 1)..Len(word)) : LoneIgnorable(ord, ign, word[i])

C4_OovCodeFixed ==
    /\ \A w \in DOMAIN keys : keys[w] = RefKey(order, ignorable, w)
    /\ call.op = "word_as_values" =>
          /\ call.values = RefKey(order, ignorable, call.word)
          /\ \A cp \in RunCodePoints(order, call.word) :
                (<<cp>> \notin ignorable /\ call.word \notin ignorable) =>
                   /\ \E i \in 1..Len(call.values) : call.values[i] = oov_start + cp
                   /\ \A g \in Graphemes(order) : Rank(order, g) < oov_start + cp
                   /\ oov_start + cp \notin {char_to_ord_lookup[g] : g \in Graphemes(order)}
                   /\ char_to_ord_lookup[<<cp>>] = oov_start + cp

\* U+016B was met a second time, after U+016B and U+012F had been logged
C4_Witness ==
    /\ call.op = "word_as_values"
    /\ call.word = <<363, 97>>
    /\ call.values = <<10363, 0>>
    /\ <<363, 303>> \in DOMAIN keys
    /\ Len(oovs) >= 2

\* C5 as claimed: values_as_word never fails on a key word_as_values returned
\* on the instance, and gives back every word of alphabet graphemes that has
\* the key.
C5_AsClaimed ==
    (call.op = "values_as_word" /\ \E w \in DOMAIN keys : keys[w] = call.values) =>
        /\ call.raised = "none"
        /\ \A w \in DOMAIN keys :
              (keys[w] = call.values /\ ComposedOfAlphabet(order, w)) => call.word = w

\* C5, amended: values_as_word never fails on a key word_as_values returned on
\* the instance, OOV codes included, and gives back every word of alphabet
\* graphemes that has the key and lost no ignorable unit to it.
C5_RoundTrip ==
    (call.op = "values_as_word" /\ \E w \in DOMAIN keys : keys[w] = call.values) =>
        /\ call.raised = "none"
        /\ \A w \in DOMAIN keys :
              (/\ keys[w] = call.values
               /\ ComposedOfAlphabet(order, w)
               /\ NoIgnorableUnit(order, ignorable, w)) => call.word = w

\* "aaba" came back from its key, and a key with two OOV codes was decoded too
C5_Witness ==
    /\ call.op = "values_as_word"
    /\ call.values = <<2, 1, 0>>
    /\ <<97, 97, 98, 97>> \in DOMAIN keys
    /\ keys[<<97, 97, 98, 97>>] = <<2, 1, 0>>
    /\ call.word = <<97, 97, 98, 97>>
    /\ <<363, 303>> \in DOMAIN keys
    /\ ignorable # {}

\* C6: entries with equal sort keys leave the sort in the order they came in.
C6_StableSort ==
    (call.op = "sort" /\ call.raised = "none") =>
        \A i \in 1..Len(call.result) : \A j \in (i + 1)..Len(call.result) :
            call.result[i].sorting_form = call.result[j].sorting_form =>
                call.result[i].entryID < call.result[j].entryID

\* "a" and U+016B "a" have one key when U+016B is ignorable; both came in behind "aba"
C6_Witness ==
    /\ call.op = "sort"
    /\ Len(call.result) = 3
    /\ call.result[1].sorting_form = call.result[2].sorting_form
    /\ call.result[1].word # call.result[2].word
    /\ call.result[3].entryID = 1

\* C7: when the sort step of initialize() meets an entry that lacks the configured
\* sorting field, initialize() raises a ConfigurationError, never a bare KeyError;
\* the error names the configured field and lists the field names that are
\* available (those of the first entry); when no entry lacks the field nothing is
\* raised.
C7_MissingSortField ==
    call.op = "sort" =>
        IF \E i \in 1..Len(call.item_list) : sorting_field \notin DOMAIN call.item_list[i]
        THEN /\ raised.type = "ConfigurationError"
             /\ raised.key = sorting_field
             /\ raised.fieldnames \ {"sorting_form"} = DOMAIN call.item_list[1]
        ELSE raised.type = "none"

\* An entry with the field followed by one without it: the error is raised after
\* the first entry was already given its sorting form.
C7_Witness ==
    /\ call.op = "sort"
    /\ Len(call.item_list) = 2
    /\ sorting_field = "sort_form"
    /\ sorting_field \in DOMAIN call.item_list[1]
    /\ sorting_field \notin DOMAIN call.item_list[2]
    /\ raised.type = "ConfigurationError"
    /\ "entryID" \in raised.fieldnames

(***************************************************************************)
(* Where a term occurs in an entry, stated from the entry alone: in an     *)
(* indexed field the entry has, in the value itself or in one element of   *)
(* a list value, at a token offset counted from 0.                         *)
(***************************************************************************)
TokensOf(text) == process_terms(normalization_function, stemmer_function, text)

IndexedFields(entry) == {keys_to_index[k] : k \in 1..Len(keys_to_index)} \cap DOMAIN entry

FieldKey(key, value, i) ==
    IF value.kind = "list" THEN key \o "[" \o ToString(i - 1) \o "]" ELSE key

Occurrences(term, entry) ==
    UNION { UNION { { <<FieldKey(key, entry[key], i), j - 1>> :
                        j \in {p \in 1..Len(TokensOf(entry[key].items[i])) :
                                  TokensOf(entry[key].items[i])[p] = term} } :
                    i \in 1..Len(entry[key].items) } :
            key \in IndexedFields(entry) }

OccurringTerms ==
    UNION { UNION { UNION { {TokensOf(raw_data[n][key].items[i])[p] :
                                p \in 1..Len(TokensOf(raw_data[n][key].items[i]))} :
                            i \in 1..Len(raw_data[n][key].items) } :
                    key \in IndexedFields(raw_data[n]) } :
            n \in 1..Len(raw_data) }

\* C8: after a build() that is the first on the index and that raised nothing, over
\* entries with distinct entryIDs, a term has a posting for an entry iff the term
\* occurs in some indexed field of the entry, no other posting exists, and the
\* location list of the posting holds each [field_key, j] of an occurrence exactly
\* once and nothing else; field_key is the field name for a value that is no list
\* and field[i] for element i of a list, j the token offset inside that value.
C8_PostingsAreOccurrences ==
    (index_call.op = "build" /\ index_call.builds = 1 /\ index_call.raised = "none") =>
        /\ \A term \in DOMAIN index_data :
               /\ DOMAIN index_data[term] # {}
               /\ DOMAIN index_data[term] \subseteq
                      {raw_data[n].entryID : n \in 1..Len(raw_data)}
        /\ \A n \in 1..Len(raw_data) : \A term \in OccurringTerms \cup DOMAIN index_data :
               LET occ     == Occurrences(term, raw_data[n])
                   posting == index_data[term][raw_data[n].entryID]
               IN  IF occ = {}
                   THEN \/ term \notin DOMAIN index_data
                        \/ raw_data[n].entryID \notin DOMAIN index_data[term]
                   ELSE /\ term \in DOMAIN index_data
                        /\ raw_data[n].entryID \in DOMAIN index_data[term]
                        /\ {posting.location[p] : p \in 1..Len(posting.location)} = occ
                        /\ Len(posting.location) = Cardinality(occ)

\* "a" of entry "1" is in its word and in both of its example sentences
C8_Witness ==
    /\ index_call.op = "build"
    /\ index_call.builds = 1
    /\ index_call.raised = "none"
    /\ Len(raw_data) = 2
    /\ <<97>> \in DOMAIN index_data
    /\ "1" \in DOMAIN index_data[<<97>>]
    /\ index_data[<<97>>]["1"].location =
           << <<"word", 0>>, <<"example_sentence[0]", 1>>, <<"example_sentence[1]", 0>> >>

\* C9: every posting that calculate_scores() has scored has a total, and a score
\* under each key, that is not negative; this covers the terms whose raw IDF is
\* negative, the terms found in more than half of the documents of a field.
C9_TotalNonNegative ==
    \A term \in DOMAIN index_data : \A doc \in DOMAIN index_data[term] :
        "score" \in DOMAIN index_data[term][doc] =>
            \A key \in DOMAIN index_data[term][doc].score :
                index_data[term][doc].score[key] >= 0

\* a term found in more than half of the documents of a field, scored under that
\* field with a total above 0
C9_Witness ==
    /\ index_call.op = "calculate_scores"
    /\ index_call.raised = "none"
    /\ \E term \in DOMAIN index_data : \E doc \in DOMAIN index_data[term] :
       \E k \in 1..Len(keys_to_index) :
           LET key == keys_to_index[k]
           IN  /\ key \in DOMAIN doc_frequency_counter
               /\ term \in DOMAIN doc_frequency_counter[key]
               /\ 2 * doc_frequency_counter[key][term] > n_documents(raw_data, key, 1)
               /\ term_frequency(index_data[term][doc], key) > 0
               /\ index_data[term][doc].score[key] > 0
               /\ index_data[term][doc].score["total"] > 0

\* C10: build() and calculate_scores() on an index over zero entries raise nothing
\* and leave the index without terms, and calculate_scores() on an index that has
\* no terms raises nothing and changes nothing.
C10_AsClaimed ==
    /\ (raw_data = <<>> /\ index_call.op \in {"build", "calculate_scores"}) =>
           (index_call.raised = "none" /\ DOMAIN index_data = {})
    /\ (index_call.op = "calculate_scores" /\ DOMAIN index_data = {}) =>
           index_call.raised = "none"

\* C11: calculate_scores() on an index on which build() never ran builds the index
\* first and then scores it: it raises nothing, the counters of build() exist and
\* every term of the entries is in the index.
C11_AsClaimed ==
    (index_call.op = "calculate_scores" /\ index_call.builds = 0) =>
        /\ index_call.raised = "none"
        /\ built
        /\ OccurringTerms \subseteq DOMAIN index_data

\* the keys a posting has a score under
ScoredKeys(posting) == DOMAIN posting.score \ {"total"}

\* C12: after build() and the first calculate_scores(), when neither raised, every
\* posting has a score under each indexed field and under "total", and the total
\* is the sum of the scores under the fields.
C12_TotalIsSum ==
    (/\ index_call.op = "calculate_scores"
     /\ index_call.scorings = 1
     /\ index_call.builds >= 1
     /\ index_call.raised = "none") =>
        \A term \in DOMAIN index_data : \A doc \in DOMAIN index_data[term] :
            LET posting == index_data[term][doc]
            IN  /\ "score" \in DOMAIN posting
                /\ DOMAIN posting.score =
                       {keys_to_index[k] : k \in 1..Len(keys_to_index)} \cup {"total"}
                /\ posting.score["total"] = SumOver(posting.score, ScoredKeys(posting))

\* a posting with a score above 0 under two fields
C12_Witness ==
    /\ index_call.op = "calculate_scores"
    /\ index_call.scorings = 1
    /\ index_call.builds = 1
    /\ index_call.raised = "none"
    /\ \E term \in DOMAIN index_data : \E doc \in DOMAIN index_data[term] :
           Cardinality({key \in ScoredKeys(index_data[term][doc]) :
                           index_data[term][doc].score[key] > 0}) >= 2

\* the locations of the postings of an entry that lie in a field
FieldLocations(doc, key) ==
    UNION { {index_data[term][doc].location[p] :
                p \in {q \in 1..Len(index_data[term][doc].location) :
                          SameField(index_data[term][doc].location[q][1], key)}} :
            term \in {t \in DOMAIN index_data : doc \in DOMAIN index_data[t]} }

\* a field value that is None, an empty str or an empty list
EmptyValue(value) ==
    \/ value.kind = "None"
    \/ value.kind = "list" /\ value.items = <<>>
    \/ value.kind = "str" /\ value.items[1] = <<>>

\* C13: build() raises nothing whatever the values are, and after the first build()
\* an indexed field that the entry lacks, or whose value is None, an empty str or
\* an empty list, gives the entry no location.
C13_AsClaimed ==
    index_call.op = "build" =>
        /\ index_call.raised = "none"
        /\ index_call.builds = 1 =>
              \A n \in 1..Len(raw_data) : \A k \in 1..Len(keys_to_index) :
                  (\/ keys_to_index[k] \notin DOMAIN raw_data[n]
                   \/ EmptyValue(raw_data[n][keys_to_index[k]])) =>
                      FieldLocations(raw_data[n].entryID, keys_to_index[k]) = {}

\* the entries that have the term in the field, in its value or in an element of it
EntriesWith(key, term) ==
    {n \in 1..Len(raw_data) :
        /\ key \in DOMAIN raw_data[n]
        /\ \E i \in 1..Len(raw_data[n][key].items) :
           \E p \in 1..Len(TokensOf(raw_data[n][key].items[i])) :
               TokensOf(raw_data[n][key].items[i])[p] = term}

\* C20: after a build() that raised nothing, the document frequency of a term in a
\* field is the number of entries that have the term in the field; an entry with a
\* list value counts once, however many elements have the term.
C20_AsClaimed ==
    (index_call.op = "build" /\ index_call.raised = "none") =>
        \A k \in 1..Len(keys_to_index) : \A term \in OccurringTerms :
            LET key == keys_to_index[k]
                df  == IF key \in DOMAIN doc_frequency_counter
                          /\ term \in DOMAIN doc_frequency_counter[key]
                       THEN doc_frequency_counter[key][term] ELSE 0
            IN  df = Cardinality(EntriesWith(key, term))

\* C14: whatever was encoded on the instance, no character is in sorter.oovs twice.
C14_AsClaimed ==
    \A i, j \in 1..Len(oovs) : i # j => oovs[i] # oovs[j]

\* the code points of a word that word_as_values meets outside the alphabet and
\* that are not ignorable
MetOutside(ord, ign, word) ==
    LET us == RefUnits(ord, word)
    IN  UNION { {us[k].text[j] : j \in {p \in 1..Len(us[k].text) : <<us[k].text[p]>> \notin ign}} :
                k \in {m \in 1..Len(us) : ~us[m].matched /\ us[m].text \notin ign} }

\* C15: a sort over entries with characters outside the alphabet raises nothing and
\* returns every entry; afterwards sorter.oovs holds every code point that was met
\* outside the alphabet and is not ignorable, and it holds no alphabet grapheme and
\* no ignorable character.
C15_OovsCollected ==
    (call.op = "sort" /\ \A i \in 1..Len(call.item_list) : "word" \in DOMAIN call.item_list[i]) =>
        /\ call.raised = "none"
        /\ Len(call.result) = Len(call.item_list)
        /\ \A i \in 1..Len(call.item_list) :
               MetOutside(order, ignorable, call.item_list[i].word)
                   \subseteq {oovs[k] : k \in 1..Len(oovs)}
        /\ \A k \in 1..Len(oovs) :
               /\ <<oovs[k]>> \notin Graphemes(order)
               /\ <<oovs[k]>> \notin ignorable

\* U+016B "a" was sorted with two words of the alphabet, U+016B not being ignorable
C15_Witness ==
    /\ call.op = "sort"
    /\ call.raised = "none"
    /\ Len(call.result) = 3
    /\ \E i \in 1..3 : call.item_list[i].word = <<363, 97>>
    /\ \E i \in 1..3 : call.item_list[i].word = <<97, 98, 97>>
    /\ <<363>> \notin ignorable
    /\ oovs = <<363>>

\* kept maps the positions of self.data to the positions the entries had in the
\* sorted list, in their order
IsEmbedding(kept, retained, sorted_list) ==
    /\ \A i \in 1..Len(retained) : sorted_list[kept[i]] = retained[i]
    /\ \A i, j \in 1..Len(retained) : i < j => kept[i] < kept[j]

\* C19: after initialize() with sorting, when nothing was raised, the entries kept
\* differ pairwise in every field of duplicate_fields_subset, have a truthy value
\* in every required field, stand in the order the sort gave them, and every entry
\* of the sorted list that was dropped has its entryID in duplicates or in
\* missing_data.
C19_CheckedData ==
    (call.op = "sort" /\ raised.type = "none") =>
        /\ \A i, j \in 1..Len(data) : \A k \in 1..Len(duplicate_fields_subset) :
               i # j => data[i][duplicate_fields_subset[k]] # data[j][duplicate_fields_subset[k]]
        /\ \A i \in 1..Len(data) : \A k \in 1..Len(required_fields) :
               data[i][required_fields[k]] # <<>>
        /\ \E kept \in [1..Len(data) -> 1..Len(call.result)] :
               /\ IsEmbedding(kept, data, call.result)
               /\ \A p \in 1..Len(call.result) :
                      (\A i \in 1..Len(data) : kept[i] # p) =>
                          \/ call.result[p].entryID \in {duplicates[d] : d \in 1..Len(duplicates)}
                          \/ call.result[p].entryID \in missing_data

\* of two entries with one word the second was dropped as a duplicate
C19_Witness ==
    /\ call.op = "sort"
    /\ raised.type = "none"
    /\ Len(call.result) = 2
    /\ call.result[1].word = call.result[2].word
    /\ Len(data) = 1
    /\ data[1] = call.result[1]
    /\ duplicates = <<call.result[2].entryID>>

\* An index made, built and scored with nothing else going on: what
\* return_single_index(lang) gives over the entries and the configuration as they are
AloneIndex(lang) ==
    LET created == create_inverted_index(data, config, lang).index
        b == build(created.normalization_function, created.stemmer_function,
                   created.keys_to_index, IndexViews(created.raw_data), EmptyDict, <<>>)
        s == calculate_scores(created.keys_to_index, IndexViews(created.raw_data), b.data,
                              b.order, TRUE, b.dfc, b.dl)
    IN [data |-> s.data, IDFS |-> s.IDFS]

\* C16: the L1 and the L2 index of one configuration and one entry list share no
\* mutable state: however the steps of making, building and scoring the two are
\* interleaved, an index that has been scored holds, and goes on holding, the
\* postings and scores it gets when it is built and scored alone.
C16_IndicesIndependent ==
    \A lang \in Languages :
        IndexOf(lang).phase = "scored" =>
            [data |-> index_dicts[IndexOf(lang).data].data, IDFS |-> IndexOf(lang).IDFS]
                = AloneIndex(lang)

\* both indices are scored, over two entries or more, and their postings differ
C16_Witness ==
    /\ l1_index.phase = "scored"
    /\ l2_index.phase = "scored"
    /\ Len(data) >= 2
    /\ DOMAIN index_dicts[l1_index.data].data # {}
    /\ DOMAIN index_dicts[l2_index.data].data # {}
    /\ index_dicts[l1_index.data].data # index_dicts[l2_index.data].data

SelectionOf(lang) == IF lang = "l1" THEN config.l1_stemmer ELSE config.l2_stemmer

\* C17: an index is only ever made from a configuration whose stemmer selections
\* are members of StemmerEnum; snowball_english is resolved to the Snowball stemmer
\* and none to no stemmer; a selection that is no member is reported when the
\* configuration is loaded, after which the dictionary is not initialized and no
\* index is made; and no step of indexing ends in an exception.
C17_StemmerResolved ==
    /\ config.raised = "none" =>
           /\ config.l1_stemmer \in StemmerEnum
           /\ config.l2_stemmer \in StemmerEnum
    /\ config.raised = "ValidationError" =>
           /\ config.l1_stemmer \notin StemmerEnum \/ config.l2_stemmer \notin StemmerEnum
           /\ call.op = "init"
           /\ l1_index.phase = "None"
           /\ l2_index.phase = "None"
    /\ \A lang \in Languages :
           /\ IndexOf(lang).phase \in {"None", "created", "built", "scored"}
           /\ IndexOf(lang).phase # "None" =>
                  /\ config.raised = "none"
                  /\ SelectionOf(lang) = "snowball_english" =>
                         IndexOf(lang).stemmer_function = "DEFAULT_STEMMER"
                  /\ SelectionOf(lang) = "none" => IndexOf(lang).stemmer_function = "None"

\* the two indices are scored, l1 without a stemmer and l2 with the Snowball stemmer
C17_Witness ==
    /\ config.raised = "none"
    /\ config.l1_stemmer = "none"
    /\ config.l2_stemmer = "snowball_english"
    /\ l1_index.phase = "scored"
    /\ l1_index.stemmer_function = "None"
    /\ l2_index.phase = "scored"
    /\ l2_index.stemmer_function = "DEFAULT_STEMMER"

\* an unknown selection was refused when the configuration was loaded
C17_Refused == config.raised = "ValidationError" /\ config.l2_stemmer = "porter"

\* C18: a step that makes, builds or scores an index leaves the entries of the
\* dictionary as they are: the same entries with the same fields in the same order.
C18_EntriesUntouched ==
    [][(l1_index' # l1_index \/ l2_index' # l2_index) => data' = data]_vars

\* an index is scored whose own list, sorted by entryID, is in another order than
\* the entries of the dictionary, which are as the sorter left them
C18_Witness ==
    /\ l1_index.phase = "scored"
    /\ Len(data) >= 2
    /\ l1_index.raw_data # data
    /\ {l1_index.raw_data[n] : n \in 1..Len(l1_index.raw_data)} = {data[n] : n \in 1..Len(data)}
    /\ call.result = data

\* the number of tokens in the first i elements of a field value
RECURSIVE TokenCount(_, _)
TokenCount(value, i) ==
    IF i = 0 THEN 0 ELSE Len(TokensOf(value.items[i])) + TokenCount(value, i - 1)

\* document_lengths[key][doc_id], 0 when nothing was recorded
RecordedLength(key, doc_id) ==
    IF key \in DOMAIN document_lengths /\ doc_id \in DOMAIN document_lengths[key]
    THEN document_lengths[key][doc_id] ELSE 0

\* C21: after a build() that raised nothing, the document length recorded for an
\* indexed field and an entry is the number of tokens the entry has in the field,
\* for a list value the sum over its elements.
C21_AsClaimed ==
    (index_call.op = "build" /\ index_call.raised = "none") =>
        \A n \in 1..Len(raw_data) : \A k \in 1..Len(keys_to_index) :
            keys_to_index[k] \in DOMAIN raw_data[n] =>
                RecordedLength(keys_to_index[k], raw_data[n].entryID)
                    = TokenCount(raw_data[n][keys_to_index[k]],
                                 Len(raw_data[n][keys_to_index[k]].items))

\* the entries whose value for the field is not empty
EntriesWithValue(key) ==
    {n \in 1..Len(raw_data) : key \in DOMAIN raw_data[n] /\ ~EmptyValue(raw_data[n][key])}

\* C22: when calculate_scores() has run and raised nothing, the document count it
\* used for the idf of an indexed field is the number of entries whose value for
\* the field is not empty; an entry with a list value counts once.
C22_AsClaimed ==
    (index_call.op = "calculate_scores" /\ index_call.raised = "none") =>
        \A k \in 1..Len(keys_to_index) :
            n_documents(raw_data, keys_to_index[k], 1)
                = Cardinality(EntriesWithValue(keys_to_index[k]))

\* the idf of a term in a field before any correction, as _calculate_idf computes it
RawIdf(key, term) ==
    idf(n_documents(raw_data, key, 1),
        IF term \in DOMAIN doc_frequency_counter[key]
        THEN doc_frequency_counter[key][term] ELSE 0)

\* the terms that have a location in the field
TermsOfField(key) ==
    {term \in DOMAIN index_data :
        \E doc \in DOMAIN index_data[term] : term_frequency(index_data[term][doc], key) > 0}

\* the terms of the field whose idf is positive
PositiveTerms(key) == {term \in TermsOfField(key) : RawIdf(key, term) > 0}

\* the mean of the positive idf values of the field
MeanPositiveIdf(key) ==
    SumOver([term \in PositiveTerms(key) |-> RawIdf(key, term)], PositiveTerms(key))
        \div Cardinality(PositiveTerms(key))

\* C23: when the first calculate_scores() after one build() raised nothing, a term
\* whose idf in a field is negative has got epsilon times the average idf of the
\* field, the average being the mean of the positive idf values of the terms of
\* that field: neither the terms with a negative idf nor the terms of other fields
\* are in its sum or its count.
C23_AsClaimed ==
    (/\ index_call.op = "calculate_scores"
     /\ index_call.raised = "none"
     /\ index_call.builds = 1
     /\ index_call.scorings = 1) =>
        \A k \in 1..Len(keys_to_index) : \A term \in DOMAIN index_data :
            (RawIdf(keys_to_index[k], term) < 0 /\ PositiveTerms(keys_to_index[k]) # {}) =>
                IDFS[keys_to_index[k]][term]
                    = (score_epsilon * MeanPositiveIdf(keys_to_index[k])) \div 1000

\* the entries that have a document length above 0 in the field
DocsWithLength(key) == {doc \in DOMAIN document_lengths[key] : document_lengths[key][doc] > 0}

\* the mean document length over the documents whose length in the field is not 0
MeanNonzeroLength(key) ==
    (SumOver(document_lengths[key], DOMAIN document_lengths[key]) * 1000)
        \div Cardinality(DocsWithLength(key))

\* C24: when the first calculate_scores() after one build() raised nothing, the
\* score of a posting under a field is the BM25 value whose average document length
\* is the mean over the documents that have a length above 0 in the field; an entry
\* whose value gives no token is not counted.
C24_AsClaimed ==
    (/\ index_call.op = "calculate_scores"
     /\ index_call.raised = "none"
     /\ index_call.builds = 1
     /\ index_call.scorings = 1) =>
        \A k \in 1..Len(keys_to_index) :
        \A term \in DOMAIN index_data : \A doc \in DOMAIN index_data[term] :
            LET key == keys_to_index[k]
            IN  DocsWithLength(key) # {} =>
                    index_data[term][doc].score[key]
                        = bm25(IDFS[key][term], term_frequency(index_data[term][doc], key),
                               RecordedLength(key, doc), MeanNonzeroLength(key))

\* the average document length of the field would be taken over no document:
\* nothing was recorded for the field, or every length recorded is 0
NoDocumentLength(key) ==
    \/ key \notin DOMAIN document_lengths
    \/ \A doc \in DOMAIN document_lengths[key] : document_lengths[key][doc] = 0

\* every entry has every indexed field, with a value that is not None
EveryFieldGiven ==
    \A n \in 1..Len(raw_data) : \A k \in 1..Len(keys_to_index) :
        /\ keys_to_index[k] \in DOMAIN raw_data[n]
        /\ raw_data[n][keys_to_index[k]].kind # "None"

\* C25: calculate_scores() on a built index that has terms, over entries that have
\* every indexed field, raises nothing when the average document length of a field
\* would be taken over no document, and every posting then has the score 0 under
\* that field.
C25_AsClaimed ==
    (/\ index_call.op = "calculate_scores"
     /\ index_call.builds >= 1
     /\ EveryFieldGiven
     /\ DOMAIN index_data # {}
     /\ \E k \in 1..Len(keys_to_index) : NoDocumentLength(keys_to_index[k])) =>
        /\ index_call.raised = "none"
        /\ \A k \in 1..Len(keys_to_index) :
           \A term \in DOMAIN index_data : \A doc \in DOMAIN index_data[term] :
               NoDocumentLength(keys_to_index[k]) =>
                   index_data[term][doc].score[keys_to_index[k]] = 0

\* the value as normalized by the normalization function of the index, if any
NormalizedValue(text) ==
    IF normalization_function = "None" THEN text ELSE create_callable(text)

\* the tokens as the claim orders the steps: normalize, stem, split
StemmedThenSplit(text) ==
    SplitWhitespace(IF stemmer_function = "None" THEN NormalizedValue(text)
                    ELSE DEFAULT_STEMMER(NormalizedValue(text)), 1, <<>>)

\* the tokens as normalize, split, and the stemmer on each piece give them
SplitThenStemmed(text) ==
    LET pieces == SplitWhitespace(NormalizedValue(text), 1, <<>>)
    IN  [j \in 1..Len(pieces) |->
            IF stemmer_function = "None" THEN pieces[j] ELSE DEFAULT_STEMMER(pieces[j])]

\* what the index holds for an entry at a field key: the pairs of a position and
\* the term listed there
TermsAt(doc, field_key) ==
    UNION { { <<index_data[term][doc].location[p][2], term>> :
                p \in {q \in 1..Len(index_data[term][doc].location) :
                          index_data[term][doc].location[q][1] = field_key} } :
            term \in {t \in DOMAIN index_data : doc \in DOMAIN index_data[t]} }

\* at every value and every element of a list value of an indexed field, the index
\* lists the tokens that Tokens gives, each at its offset, and nothing else
FieldTokensAre(Tokens(_)) ==
    \A n \in 1..Len(raw_data) : \A key \in IndexedFields(raw_data[n]) :
    \A i \in 1..Len(raw_data[n][key].items) :
        TermsAt(raw_data[n].entryID, FieldKey(key, raw_data[n][key], i))
            = { <<j - 1, Tokens(raw_data[n][key].items[i])[j]>> :
                    j \in 1..Len(Tokens(raw_data[n][key].items[i])) }

\* the first build() on the index has run and raised nothing
FirstBuildDone ==
    index_call.op = "build" /\ index_call.builds = 1 /\ index_call.raised = "none"

\* C26 as it is stated: the tokens of a field value are the value normalized, then
\* stemmed when a stemmer is set, then split on white space.
C26_AsClaimed == FirstBuildDone => FieldTokensAre(StemmedThenSplit)

\* C26, amended: the tokens of a field value are the value normalized, then split
\* on white space, then each piece stemmed when a stemmer is set; without a stemmer
\* they are the pieces of the normalized value.
C26_SplitThenStemmed == FirstBuildDone => FieldTokensAre(SplitThenStemmed)

\* "cabs a" was indexed with the Snowball stemmer: "cab" at 0 and "a" at 1
C26_Witness ==
    /\ FirstBuildDone
    /\ stemmer_function = "DEFAULT_STEMMER"
    /\ \E n \in 1..Len(raw_data) :
           /\ raw_data[n].entryID = "4"
           /\ TermsAt("4", "word") = { <<0, <<99, 97, 98>> >>, <<1, <<97>> >> }

\* the side tables of build() are there for every indexed field, with a document
\* length for every entry of the index
TablesPopulated(ix) ==
    \A k \in 1..Len(ix.keys_to_index) :
        /\ ix.keys_to_index[k] \in DOMAIN ix.doc_frequency_counter
        /\ ix.keys_to_index[k] \in DOMAIN ix.document_lengths
        /\ DOMAIN ix.document_lengths[ix.keys_to_index[k]]
               = {ix.raw_data[n].entryID : n \in 1..Len(ix.raw_data)}

C27_EmptyExport ==
    /\ call.op = "sort"
    /\ export_result.raised = "none"
    /\ export_result.data = <<>>
    /\ l1_index.phase = "created"
    /\ l2_index.phase = "created"

\* the postings a single build() gives on a new index over the same entries
SingleBuild ==
    build(normalization_function, stemmer_function, keys_to_index, raw_data, EmptyDict, <<>>).data

\* C28: after any number of build() calls on an index that was never scored, the
\* last of which raised nothing, the postings are those of a single build(), and
\* no [field_key, position] pair is listed twice in a location list.
C28_AsClaimed ==
    (/\ index_call.op = "build"
     /\ index_call.raised = "none"
     /\ index_call.scorings = 0) =>
        /\ index_data = SingleBuild
        /\ \A term \in DOMAIN index_data : \A doc \in DOMAIN index_data[term] :
           \A p, q \in 1..Len(index_data[term][doc].location) :
               p # q => index_data[term][doc].location[p] # index_data[term][doc].location[q]

\* the postings and scores that one build() and one calculate_scores() give on a new
\* index over the same entries
ScoredOnce ==
    LET b == build(normalization_function, stemmer_function, keys_to_index, raw_data,
                   EmptyDict, <<>>)
    IN  calculate_scores(keys_to_index, raw_data, b.data, b.order, TRUE, b.dfc, b.dl).data

\* C29: on an index that was built once, whenever calculate_scores() has run and
\* raised nothing, every posting has the per-field scores and the total that the
\* first calculate_scores() gives: a repeated call adds nothing to the total.
C29_AsClaimed ==
    (/\ index_call.op = "calculate_scores"
     /\ index_call.raised = "none"
     /\ index_call.builds = 1) =>
        index_data = ScoredOnce

\* the lists that hold the entries of the index, each once, in some order
Reorderings ==
    {entries \in RawData :
        /\ Len(entries) = Len(raw_data)
        /\ {entries[n] : n \in 1..Len(entries)} = {raw_data[n] : n \in 1..Len(raw_data)}}

\* the index that the constructor, one build() and one calculate_scores() give when
\* the entries are supplied as the list entries
IndexOver(entries) ==
    LET own == IF entries # <<>> THEN SortedByEntryID(entries, 1, <<>>) ELSE entries
        b   == build(normalization_function, stemmer_function, keys_to_index, own,
                     EmptyDict, <<>>)
        s   == calculate_scores(keys_to_index, own, b.data, b.order, TRUE, b.dfc, b.dl)
    IN  [data |-> s.data, order |-> b.order, dfc |-> b.dfc, dl |-> b.dl, IDFS |-> s.IDFS,
         raised |-> s.raised]

\* C30: the index after one build() and one calculate_scores() that raised nothing
\* is the one that any reordering of the supplied entries gives: the same postings
\* and scores, with the terms in the same order, the same document frequencies,
\* document lengths and IDFS.
C30_OrderIndependent ==
    (/\ index_call.op = "calculate_scores"
     /\ index_call.raised = "none"
     /\ index_call.builds = 1
     /\ index_call.scorings = 1) =>
        \A entries \in Reorderings :
            IndexOver(entries) =
                [data |-> index_data, order |-> term_order, dfc |-> doc_frequency_counter,
                 dl |-> document_lengths, IDFS |-> IDFS, raised |-> "none"]

\* an index over two entries, built and scored, whose terms came in with different
\* entries, so that the order of the entries decides the order of the terms
C30_Witness ==
    /\ index_call.op = "calculate_scores"
    /\ index_call.raised = "none"
    /\ index_call.builds = 1
    /\ index_call.scorings = 1
    /\ Len(raw_data) = 2
    /\ Cardinality(Reorderings) = 2
    /\ Len(term_order) >= 2
    /\ raw_data[2].entryID \notin DOMAIN index_data[term_order[1]]
    /\ raw_data[1].entryID \notin DOMAIN index_data[term_order[Len(term_order)]]

============================================================================
